---------------------------- MODULE Spec2Model ----------------------------
(***************************************************************************)
(* A state-machine model of the Game Boy emulator core: the LR35902 CPU    *)
(* interpreter (src/src/cpu.js), the memory bus (src/src/mmu.js), the PPU  *)
(* mode machine (src/src/ppu.js), the frame loop and timer                 *)
(* (src/src/gameboy.js) and the cartridge with its memory bank controllers *)
(* (src/unnamed/part_000).                                                 *)
(*                                                                         *)
(* Memories are kept sparse: a memory is a function from the offsets that  *)
(* differ from the fill value to their bytes, so two memories are equal    *)
(* exactly when their contents are.  The PPU's pixel buffers and the APU's *)
(* audio nodes are not part of the state modelled here; they are written   *)
(* by the steps below but never read back by the CPU, the bus or the timer.*)
(***************************************************************************)
EXTENDS Integers, Sequences, FiniteSets, TLC

VARIABLES
    cpu,     \* CPU: registers, SP, PC, IME, halted, stopped, cycles, totalCycles
    mmu,     \* MMU: io, vram, wram, oam, hram, biosEnabled
    ppu,     \* PPU: cycles, currentLine, mode, frameComplete
    cart,    \* Cartridge: the loaded image, external RAM, header-derived sizes
    mbc,     \* the cartridge's memory bank controller and its registers
    gb,      \* GameBoy.runFrame: position in the loop, its local cycle count, calls made
    busOp    \* the bus access or CPU step made by the last action

vars == <<cpu, mmu, ppu, cart, mbc, gb, busOp>>

(***************************************************************************)
(* Integer helpers for JavaScript's bitwise operators on small naturals.   *)
(***************************************************************************)
RECURSIVE BitAnd(_, _)
BitAnd(a, b) ==
    IF a = 0 \/ b = 0 THEN 0
    ELSE (a % 2) * (b % 2) + 2 * BitAnd(a \div 2, b \div 2)

RECURSIVE BitOr(_, _)
BitOr(a, b) ==
    IF a = 0 THEN b
    ELSE IF b = 0 THEN a
    ELSE (IF a % 2 = 1 \/ b % 2 = 1 THEN 1 ELSE 0) + 2 * BitOr(a \div 2, b \div 2)

RECURSIVE Pow2(_)
Pow2(n) == IF n = 0 THEN 1 ELSE 2 * Pow2(n - 1)

\* x & ~bit on a value stored in a Uint8Array
ClearBits(x, bits) == x - BitAnd(x, bits)

\* A sparse memory: read with the fill value for offsets that hold it.
SparseGet(mem, off, fill) == IF off \in DOMAIN mem THEN mem[off] ELSE fill

SparseSet(mem, off, value, fill) ==
    IF value = fill
    THEN [o \in (DOMAIN mem) \ {off} |-> mem[o]]
    ELSE [o \in (DOMAIN mem) \cup {off} |-> IF o = off THEN value ELSE mem[o]]

EmptyMem == [o \in {} |-> 0]

\* JavaScript's (x || 0xFF) on a typed-array element: undefined and 0 both give 0xFF.
Undefined == -1
OrFF(x) == IF x = Undefined \/ x = 0 THEN 255 ELSE x

(***************************************************************************)
(* Cartridge images.  An image is the byte buffer handed to loadROM: its   *)
(* header bytes, the code at the entry point 0x0100, and for every other   *)
(* offset a byte that depends on the bank and on the offset in the bank,   *)
(* so that a read tells which bank and which offset it came from.  Stored  *)
(* zero bytes occur (bank 1 offset 239, bank 15 offset 1, ...).            *)
(***************************************************************************)
BankSize == \h4000
RamBankSize == \h2000

Images == <<
    \* 1: ROM only, 32 KiB: INC B; INC C; JP 0x0101
    [cartridgeType |-> \h00, romSizeCode |-> 0, ramSizeCode |-> 0,
     code |-> <<\h04, \h0C, \hC3, \h01, \h01>>],
    \* 2: MBC1+RAM+BATTERY, 128 KiB ROM, 8 KiB RAM: HALT; INC B; JP 0x0101
    [cartridgeType |-> \h03, romSizeCode |-> 2, ramSizeCode |-> 2,
     code |-> <<\h76, \h04, \hC3, \h01, \h01>>],
    \* 3: MBC1+RAM, 1 MiB ROM (64 banks), 32 KiB RAM: EI; INC B; JP 0x0101
    [cartridgeType |-> \h02, romSizeCode |-> 5, ramSizeCode |-> 3,
     code |-> <<\hFB, \h04, \hC3, \h01, \h01>>],
    \* 4: MBC2+BATTERY, 64 KiB ROM: LD (BC),A; RLCA; LD A,(BC); JP 0x0101
    [cartridgeType |-> \h06, romSizeCode |-> 1, ramSizeCode |-> 0,
     code |-> <<\h02, \h07, \h0A, \hC3, \h01, \h01>>],
    \* 5: MBC3+RAM+BATTERY, 256 KiB ROM, 32 KiB RAM: CALL 0x0108; HALT; ...; RET at 0x0108
    [cartridgeType |-> \h13, romSizeCode |-> 3, ramSizeCode |-> 3,
     code |-> <<\hCD, \h08, \h01, \h76, \hC3, \h03, \h01, \h04, \hC9>>],
    \* 6: MBC5+RAM+BATTERY, 512 KiB ROM, 32 KiB RAM:
    \*    LD BC,0xFF0F; RLCA; RLCA; RLCA; LD (BC),A; EI; HALT; JP 0x0108
    [cartridgeType |-> \h1B, romSizeCode |-> 4, ramSizeCode |-> 3,
     code |-> <<\h01, \h0F, \hFF, \h07, \h07, \h07, \h02, \hFB, \h76,
                \hC3, \h08, \h01>>]
>>

ImageIds == 1..Len(Images)

\* romBankCount = 2 << romSizeCode
ImageRomBankCount(img) == 2 * Pow2(Images[img].romSizeCode)

ImageSize(img) == ImageRomBankCount(img) * BankSize

ImageFill(off) == ((off \div BankSize) * 17 + (off % BankSize)) % 256

\* this.rom[off]: the byte of the image, undefined past its end.  Image 0 is
\* a buffer of 16 KiB, too short to be a cartridge, holding (3 * off + 1) % 256.
RomAt(img, off) ==
    IF img = 0 THEN (IF off < \h4000 THEN (3 * off + 1) % 256 ELSE Undefined)
    ELSE IF off >= ImageSize(img) THEN Undefined
    ELSE IF off = \h147 THEN Images[img].cartridgeType
    ELSE IF off = \h148 THEN Images[img].romSizeCode
    ELSE IF off = \h149 THEN Images[img].ramSizeCode
    ELSE IF off >= \h100 /\ off < \h100 + Len(Images[img].code)
         THEN Images[img].code[off - \h100 + 1]
    ELSE ImageFill(off)

GetRamBankCount(ramSizeCode) ==
    CASE ramSizeCode = 0 -> 0
      [] ramSizeCode = 1 -> 1
      [] ramSizeCode = 2 -> 1
      [] ramSizeCode = 3 -> 4
      [] ramSizeCode = 4 -> 16
      [] ramSizeCode = 5 -> 8
      [] OTHER -> 0

CartridgeHasBattery(cartridgeType) ==
    cartridgeType \in {\h03, \h06, \h09, \h0D, \h0F, \h10, \h13, \h1B, \h1E, \h22, \hFF}

\* Cartridge.setupMBC: the controller class chosen from the header's type byte
SetupMBC(cartridgeType) ==
    CASE cartridgeType = \h00 -> "NoMBC"
      [] cartridgeType \in {\h01, \h02, \h03} -> "MBC1"
      [] cartridgeType \in {\h05, \h06} -> "MBC2"
      [] cartridgeType \in {\h0F, \h10, \h11, \h12, \h13} -> "MBC3"
      [] cartridgeType \in {\h19, \h1A, \h1B, \h1C, \h1D, \h1E} -> "MBC5"
      [] OTHER -> "NoMBC"

\* The RTC register file of MBC3 as constructed
RtcZero ==
    [seconds |-> 0, minutes |-> 0, hours |-> 0, daysLow |-> 0, daysHigh |-> 0,
     halt |-> FALSE, dayCarry |-> FALSE]

\* The controller as its constructor leaves it.  One record carries the fields
\* of every controller class; a class reads and writes only its own.
NewMBC(kind) ==
    [kind |-> kind,
     ramEnabled |-> FALSE, romBank |-> 1, ramBank |-> 0, bankingMode |-> 0,
     internalRam |-> EmptyMem,
     ramRtcBank |-> 0, rtc |-> RtcZero, rtcLatch |-> 0, rtcLatched |-> RtcZero,
     romBankLow |-> 1, romBankHigh |-> 0]

\* Cartridge.loadROM on a fresh Cartridge: parseHeader, initializeRAM (filled
\* with 0xFF, which is the sparse fill), setupMBC; no save data in local storage.
LoadedCartridge(img) ==
    [image |-> img,
     cartridgeType |-> Images[img].cartridgeType,
     romBankCount |-> ImageRomBankCount(img),
     ramBankCount |-> GetRamBankCount(Images[img].ramSizeCode),
     ramSize |-> GetRamBankCount(Images[img].ramSizeCode) * RamBankSize,
     hasRam |-> GetRamBankCount(Images[img].ramSizeCode) > 0,
     ram |-> EmptyMem,
     hasBattery |-> CartridgeHasBattery(Images[img].cartridgeType),
     romBank |-> 1, ramBank |-> 0, ramEnabled |-> FALSE, bankingMode |-> 0]

\* this.cartridge.ram[off]: undefined past the end of the array
RamAt(c, off) == IF off >= c.ramSize THEN Undefined ELSE SparseGet(c.ram, off, \hFF)

\* this.cartridge.ram[off] = value, done only when off < ram.length
RamStore(c, off, value) ==
    IF off < c.ramSize THEN [c EXCEPT !.ram = SparseSet(c.ram, off, value, \hFF)] ELSE c

(***************************************************************************)
(* Memory bank controllers: read(address) and write(address, value) of     *)
(* each class.  c is the Cartridge, m the controller; a write returns both.*)
(***************************************************************************)
InRam(address) == address >= \hA000 /\ address < \hC000

NoMBCRead(c, m, address) ==
    IF address < \h8000 THEN OrFF(RomAt(c.image, address)) ELSE \hFF

MBC1UpperBanking(c, m) == m.bankingMode = 1 /\ c.romBankCount > 32

MBC1RamBank(m) == IF m.bankingMode = 1 THEN m.ramBank ELSE 0

\* the bank MBC1.read maps at 0x4000..0x7FFF
MBC1HighBank(c, m) ==
    IF MBC1UpperBanking(c, m) THEN BitOr(m.romBank, m.ramBank * 32) ELSE m.romBank

MBC1Read(c, m, address) ==
    IF address < \h4000 THEN
        OrFF(RomAt(c.image,
                   address + (IF MBC1UpperBanking(c, m) THEN m.ramBank * 32 ELSE 0) * BankSize))
    ELSE IF address < \h8000 THEN
        OrFF(RomAt(c.image, address - \h4000 + MBC1HighBank(c, m) * BankSize))
    ELSE IF InRam(address) THEN
        IF ~m.ramEnabled \/ ~c.hasRam THEN \hFF
        ELSE OrFF(RamAt(c, address - \hA000 + MBC1RamBank(m) * RamBankSize))
    ELSE \hFF

\* (value & 0x0F) === 0x0A
IsRamEnableValue(value) == BitAnd(value, \h0F) = \h0A

\* a bank number of 0 is replaced by 1
ZeroToOne(bank) == IF bank = 0 THEN 1 ELSE bank

MBC1Write(c, m, address, value) ==
    IF address < \h2000 THEN
        [cart |-> c, mbc |-> [m EXCEPT !.ramEnabled = IsRamEnableValue(value)]]
    ELSE IF address < \h4000 THEN
        [cart |-> c, mbc |-> [m EXCEPT !.romBank = ZeroToOne(BitAnd(value, \h1F))]]
    ELSE IF address < \h6000 THEN
        [cart |-> c, mbc |-> [m EXCEPT !.ramBank = BitAnd(value, \h03)]]
    ELSE IF address < \h8000 THEN
        [cart |-> c, mbc |-> [m EXCEPT !.bankingMode = BitAnd(value, \h01)]]
    ELSE IF InRam(address) /\ m.ramEnabled /\ c.hasRam THEN
        [cart |-> RamStore(c, address - \hA000 + MBC1RamBank(m) * RamBankSize, value),
         mbc |-> m]
    ELSE [cart |-> c, mbc |-> m]

MBC2Read(c, m, address) ==
    IF address < \h4000 THEN OrFF(RomAt(c.image, address))
    ELSE IF address < \h8000 THEN
        OrFF(RomAt(c.image, address - \h4000 + m.romBank * BankSize))
    ELSE IF address >= \hA000 /\ address < \hA200 THEN
        IF ~m.ramEnabled THEN \hFF
        ELSE BitOr(SparseGet(m.internalRam, address - \hA000, \h0F), \hF0)
    ELSE \hFF

MBC2Write(c, m, address, value) ==
    IF address < \h4000 THEN
        IF BitAnd(address, \h0100) # 0
        THEN [cart |-> c, mbc |-> [m EXCEPT !.romBank = ZeroToOne(BitAnd(value, \h0F))]]
        ELSE [cart |-> c, mbc |-> [m EXCEPT !.ramEnabled = IsRamEnableValue(value)]]
    ELSE IF address >= \hA000 /\ address < \hA200 /\ m.ramEnabled THEN
        [cart |-> c,
         mbc |-> [m EXCEPT !.internalRam =
                     SparseSet(m.internalRam, address - \hA000, BitAnd(value, \h0F), \h0F)]]
    ELSE [cart |-> c, mbc |-> m]

MBC3ReadRTC(m) ==
    CASE m.ramRtcBank = \h08 -> m.rtcLatched.seconds
      [] m.ramRtcBank = \h09 -> m.rtcLatched.minutes
      [] m.ramRtcBank = \h0A -> m.rtcLatched.hours
      [] m.ramRtcBank = \h0B -> m.rtcLatched.daysLow
      [] m.ramRtcBank = \h0C ->
            BitOr(m.rtcLatched.daysHigh,
                  BitOr(IF m.rtcLatched.halt THEN \h40 ELSE 0,
                        IF m.rtcLatched.dayCarry THEN \h80 ELSE 0))
      [] OTHER -> \hFF

MBC3WriteRTC(m, value) ==
    CASE m.ramRtcBank = \h08 -> [m EXCEPT !.rtc.seconds = BitAnd(value, \h3F)]
      [] m.ramRtcBank = \h09 -> [m EXCEPT !.rtc.minutes = BitAnd(value, \h3F)]
      [] m.ramRtcBank = \h0A -> [m EXCEPT !.rtc.hours = BitAnd(value, \h1F)]
      [] m.ramRtcBank = \h0B -> [m EXCEPT !.rtc.daysLow = value]
      [] m.ramRtcBank = \h0C ->
            [m EXCEPT !.rtc.daysHigh = BitAnd(value, \h01),
                      !.rtc.halt = BitAnd(value, \h40) # 0,
                      !.rtc.dayCarry = BitAnd(value, \h80) # 0]
      [] OTHER -> m

MBC3Read(c, m, address) ==
    IF address < \h4000 THEN OrFF(RomAt(c.image, address))
    ELSE IF address < \h8000 THEN
        OrFF(RomAt(c.image, address - \h4000 + m.romBank * BankSize))
    ELSE IF InRam(address) THEN
        IF ~m.ramEnabled THEN \hFF
        ELSE IF m.ramRtcBank <= 3 THEN
            IF ~c.hasRam THEN \hFF
            ELSE OrFF(RamAt(c, address - \hA000 + m.ramRtcBank * RamBankSize))
        ELSE MBC3ReadRTC(m)
    ELSE \hFF

\* A faulty MBC3.write whose RAM branch does not test ramEnabled (C8 rejects it)
MBC3WriteUngated(c, m, address, value) ==
    IF address < \h2000 THEN
        [cart |-> c, mbc |-> [m EXCEPT !.ramEnabled = IsRamEnableValue(value)]]
    ELSE IF address < \h4000 THEN
        [cart |-> c, mbc |-> [m EXCEPT !.romBank = ZeroToOne(BitAnd(value, \h7F))]]
    ELSE IF address < \h6000 THEN
        [cart |-> c, mbc |-> [m EXCEPT !.ramRtcBank = value]]
    ELSE IF address < \h8000 THEN
        [cart |-> c,
         mbc |-> [m EXCEPT !.rtcLatched =
                               IF m.rtcLatch = 0 /\ value = 1 THEN m.rtc ELSE m.rtcLatched,
                           !.rtcLatch = value]]
    ELSE IF InRam(address) THEN
        IF m.ramRtcBank <= 3 THEN
            IF ~c.hasRam THEN [cart |-> c, mbc |-> m]
            ELSE [cart |-> RamStore(c, address - \hA000 + m.ramRtcBank * RamBankSize, value),
                  mbc |-> m]
        ELSE [cart |-> c, mbc |-> MBC3WriteRTC(m, value)]
    ELSE [cart |-> c, mbc |-> m]

MBC3Write(c, m, address, value) ==
    IF address < \h2000 THEN
        [cart |-> c, mbc |-> [m EXCEPT !.ramEnabled = IsRamEnableValue(value)]]
    ELSE IF address < \h4000 THEN
        [cart |-> c, mbc |-> [m EXCEPT !.romBank = ZeroToOne(BitAnd(value, \h7F))]]
    ELSE IF address < \h6000 THEN
        [cart |-> c, mbc |-> [m EXCEPT !.ramRtcBank = value]]
    ELSE IF address < \h8000 THEN
        [cart |-> c,
         mbc |-> [m EXCEPT !.rtcLatched =
                               IF m.rtcLatch = 0 /\ value = 1 THEN m.rtc ELSE m.rtcLatched,
                           !.rtcLatch = value]]
    ELSE IF InRam(address) /\ m.ramEnabled THEN
        IF m.ramRtcBank <= 3 THEN
            IF ~c.hasRam THEN [cart |-> c, mbc |-> m]
            ELSE [cart |-> RamStore(c, address - \hA000 + m.ramRtcBank * RamBankSize, value),
                  mbc |-> m]
        ELSE [cart |-> c, mbc |-> MBC3WriteRTC(m, value)]
    ELSE [cart |-> c, mbc |-> m]

\* get romBank() of MBC5
MBC5RomBank(m) == BitOr(m.romBankLow, m.romBankHigh * 256)

MBC5Read(c, m, address) ==
    IF address < \h4000 THEN OrFF(RomAt(c.image, address))
    ELSE IF address < \h8000 THEN
        OrFF(RomAt(c.image, address - \h4000 + MBC5RomBank(m) * BankSize))
    ELSE IF InRam(address) THEN
        IF ~m.ramEnabled \/ ~c.hasRam THEN \hFF
        ELSE OrFF(RamAt(c, address - \hA000 + m.ramBank * RamBankSize))
    ELSE \hFF

MBC5Write(c, m, address, value) ==
    IF address < \h2000 THEN
        [cart |-> c, mbc |-> [m EXCEPT !.ramEnabled = IsRamEnableValue(value)]]
    ELSE IF address < \h3000 THEN
        [cart |-> c, mbc |-> [m EXCEPT !.romBankLow = value]]
    ELSE IF address < \h4000 THEN
        [cart |-> c, mbc |-> [m EXCEPT !.romBankHigh = BitAnd(value, \h01)]]
    ELSE IF address < \h6000 THEN
        [cart |-> c, mbc |-> [m EXCEPT !.ramBank = BitAnd(value, \h0F)]]
    ELSE IF InRam(address) /\ m.ramEnabled /\ c.hasRam THEN
        [cart |-> RamStore(c, address - \hA000 + m.ramBank * RamBankSize, value), mbc |-> m]
    ELSE [cart |-> c, mbc |-> m]

\* Cartridge.read: dispatch on the controller class
CartridgeRead(c, m, address) ==
    CASE m.kind = "MBC1" -> MBC1Read(c, m, address)
      [] m.kind = "MBC2" -> MBC2Read(c, m, address)
      [] m.kind = "MBC3" -> MBC3Read(c, m, address)
      [] m.kind = "MBC5" -> MBC5Read(c, m, address)
      [] OTHER -> NoMBCRead(c, m, address)

\* Cartridge.write
CartridgeWrite(c, m, address, value) ==
    CASE m.kind = "MBC1" -> MBC1Write(c, m, address, value)
      [] m.kind = "MBC2" -> MBC2Write(c, m, address, value)
      [] m.kind = "MBC3" -> MBC3Write(c, m, address, value)
      [] m.kind = "MBC5" -> MBC5Write(c, m, address, value)
      [] OTHER -> [cart |-> c, mbc |-> m]

\* A faulty Cartridge.reset that also erases the external RAM
CartridgeResetErasesRam(c) ==
    [c EXCEPT !.romBank = 1, !.ramBank = 0, !.ramEnabled = FALSE, !.bankingMode = 0,
              !.ram = EmptyMem]

\* Cartridge.reset followed by the controller's reset()
CartridgeReset(c) ==
    [c EXCEPT !.romBank = 1, !.ramBank = 0, !.ramEnabled = FALSE, !.bankingMode = 0]

MBCReset(m) ==
    CASE m.kind = "MBC1" ->
            [m EXCEPT !.ramEnabled = FALSE, !.romBank = 1, !.ramBank = 0, !.bankingMode = 0]
      [] m.kind = "MBC2" -> [m EXCEPT !.ramEnabled = FALSE, !.romBank = 1]
      [] m.kind = "MBC3" ->
            [m EXCEPT !.ramEnabled = FALSE, !.romBank = 1, !.ramRtcBank = 0, !.rtcLatch = 0]
      [] m.kind = "MBC5" ->
            [m EXCEPT !.ramEnabled = FALSE, !.romBankLow = 1, !.romBankHigh = 0, !.ramBank = 0]
      [] OTHER -> m

(***************************************************************************)
(* The memory bus.  A system S is the record of the five components; the   *)
(* bus and CPU operators below take one and return the one that results.   *)
(***************************************************************************)
\* MMU.loadBIOS: the 88 bytes stored at the start of the 256-byte bios array
BiosData ==
    <<\h31, \hFE, \hFF, \hAF, \h21, \hFF, \h9F, \h32, \hCB, \h7C, \h20, \hFB,
      \h21, \h26, \hFF, \h0E, \h11, \h3E, \h80, \h32, \hE2, \h0C, \h3E, \hF3,
      \hE2, \h32, \h3E, \h77, \h77, \h3E, \hFC, \hE0, \h47, \h11, \h04, \h01,
      \h21, \h10, \h80, \h1A, \hCD, \h95, \h00, \hCD, \h96, \h00, \h13, \h7B,
      \hFE, \h34, \h20, \hF3, \h11, \hD8, \h00, \h06, \h08, \h1A, \h13, \h22,
      \h23, \h05, \h20, \hF9, \h3E, \h19, \hEA, \h10, \h99, \h21, \h2F, \h99,
      \h0E, \h0C, \h3D, \h28, \h08, \h32, \h0D, \h20, \hF9, \h2E, \h0F, \h18,
      \hF3, \hC3, \h00, \h01>>

BiosAt(address) == IF address < Len(BiosData) THEN BiosData[address + 1] ELSE 0

\* MMU.initIO: the registers it assigns; every other register keeps old[offset]
InitIO(old) ==
    [offset \in 0..127 |->
        CASE offset = \h00 -> \hCF  [] offset = \h02 -> \h7E
          [] offset = \h05 -> \h00  [] offset = \h06 -> \h00
          [] offset = \h07 -> \hF8  [] offset = \h0F -> \hE1
          [] offset = \h10 -> \h80  [] offset = \h11 -> \hBF
          [] offset = \h12 -> \hF3  [] offset = \h14 -> \hBF
          [] offset = \h16 -> \h3F  [] offset = \h17 -> \h00
          [] offset = \h19 -> \hBF  [] offset = \h1A -> \h7F
          [] offset = \h1B -> \hFF  [] offset = \h1C -> \h9F
          [] offset = \h1E -> \hBF  [] offset = \h20 -> \hFF
          [] offset = \h21 -> \h00  [] offset = \h22 -> \h00
          [] offset = \h23 -> \hBF  [] offset = \h24 -> \h77
          [] offset = \h25 -> \hF3  [] offset = \h26 -> \hF1
          [] offset = \h40 -> \h91  [] offset = \h41 -> \h85
          [] offset \in {\h42, \h43, \h44, \h45, \h46, \h4A, \h4B} -> \h00
          [] offset = \h47 -> \hFC
          [] offset \in {\h48, \h49, \h4D, \h4F, \h51, \h52, \h53, \h54, \h55} -> \hFF
          [] offset \in {\h68, \h69, \h6A, \h6B, \h70, \h7F} -> \hFF
          [] OTHER -> old[offset]]

ZeroIO == [offset \in 0..127 |-> 0]

NoButtons ==
    [right |-> FALSE, left |-> FALSE, up |-> FALSE, down |-> FALSE,
     a |-> FALSE, b |-> FALSE, select |-> FALSE, start |-> FALSE]

\* new MMU()
NewMMU ==
    [io |-> InitIO(ZeroIO), vram |-> EmptyMem, wram |-> EmptyMem, oam |-> EmptyMem,
     hram |-> EmptyMem, biosEnabled |-> TRUE, joypadState |-> NoButtons]

\* MMU.reset
MMUReset(u) ==
    [u EXCEPT !.vram = EmptyMem, !.wram = EmptyMem, !.oam = EmptyMem, !.hram = EmptyMem,
              !.biosEnabled = TRUE, !.io = InitIO(u.io)]

\* the IE and IF accessors
IE(u) == u.io[\h7F]
IF_(u) == u.io[\h0F]

GetJoypadState(u) ==
    LET p1 == u.io[\h00]
        j == u.joypadState
        dir == IF BitAnd(p1, \h10) = 0
               THEN (IF ~j.down THEN 8 ELSE 0) + (IF ~j.up THEN 4 ELSE 0)
                    + (IF ~j.left THEN 2 ELSE 0) + (IF ~j.right THEN 1 ELSE 0)
               ELSE 0
        btn == IF BitAnd(p1, \h20) = 0
               THEN (IF ~j.start THEN 8 ELSE 0) + (IF ~j.select THEN 4 ELSE 0)
                    + (IF ~j.b THEN 2 ELSE 0) + (IF ~j.a THEN 1 ELSE 0)
               ELSE 0
    IN  BitOr(BitAnd(p1, \h30), BitOr(dir, btn))

ReadIO(u, offset) == IF offset = \h00 THEN GetJoypadState(u) ELSE u.io[offset]

Read8(S, addr) ==
    LET address == addr % 65536
        u == S.mmu
    IN  IF address < \h0100 /\ u.biosEnabled THEN BiosAt(address)
        ELSE IF address < \h8000 THEN CartridgeRead(S.cart, S.mbc, address)
        ELSE IF address < \hA000 THEN SparseGet(u.vram, address - \h8000, 0)
        ELSE IF address < \hC000 THEN CartridgeRead(S.cart, S.mbc, address)
        ELSE IF address < \hE000 THEN SparseGet(u.wram, address - \hC000, 0)
        ELSE IF address < \hFE00 THEN SparseGet(u.wram, address - \hE000, 0)
        ELSE IF address < \hFEA0 THEN SparseGet(u.oam, address - \hFE00, 0)
        ELSE IF address < \hFF00 THEN \hFF
        ELSE IF address < \hFF80 THEN ReadIO(u, address - \hFF00)
        ELSE IF address < \hFFFF THEN SparseGet(u.hram, address - \hFF80, 0)
        ELSE u.io[\h7F]

\* MMU.performDMA: 160 bytes from sourceHigh << 8 into the sprite table
PerformDMA(S, sourceHigh) ==
    LET source == sourceHigh * 256
        nonzero == {i \in 0..159 : Read8(S, source + i) # 0}
    IN  [i \in nonzero |-> Read8(S, source + i)]

WriteIO(S, offset, value) ==
    LET io == S.mmu.io
    IN  CASE offset = \h00 ->
                [S EXCEPT !.mmu.io[offset] = BitOr(BitAnd(io[offset], \h0F), BitAnd(value, \h30))]
          [] offset = \h04 -> [S EXCEPT !.mmu.io[offset] = 0]
          [] offset = \h44 -> [S EXCEPT !.mmu.io[offset] = 0]
          [] offset = \h46 ->
                [S EXCEPT !.mmu.oam = PerformDMA(S, value), !.mmu.io[offset] = value]
          [] offset = \h50 ->
                IF value # 0 THEN [S EXCEPT !.mmu.biosEnabled = FALSE] ELSE S
          [] OTHER -> [S EXCEPT !.mmu.io[offset] = value]

\* MMU.write8 with the echo region left unmirrored: a write to 0xE000..0xFDFF
\* is dropped instead of reaching work RAM
Write8EchoDropped(S, addr, val) ==
    LET address == addr % 65536
        value == val % 256
        u == S.mmu
        cw == CartridgeWrite(S.cart, S.mbc, address, value)
    IN  IF address < \h8000 THEN [S EXCEPT !.cart = cw.cart, !.mbc = cw.mbc]
        ELSE IF address < \hA000 THEN
            [S EXCEPT !.mmu.vram = SparseSet(u.vram, address - \h8000, value, 0)]
        ELSE IF address < \hC000 THEN [S EXCEPT !.cart = cw.cart, !.mbc = cw.mbc]
        ELSE IF address < \hE000 THEN
            [S EXCEPT !.mmu.wram = SparseSet(u.wram, address - \hC000, value, 0)]
        ELSE IF address < \hFE00 THEN S
        ELSE IF address < \hFEA0 THEN
            [S EXCEPT !.mmu.oam = SparseSet(u.oam, address - \hFE00, value, 0)]
        ELSE IF address < \hFF00 THEN S
        ELSE IF address < \hFF80 THEN WriteIO(S, address - \hFF00, value)
        ELSE IF address < \hFFFF THEN
            [S EXCEPT !.mmu.hram = SparseSet(u.hram, address - \hFF80, value, 0)]
        ELSE [S EXCEPT !.mmu.io[\h7F] = value]

Write8(S, addr, val) ==
    LET address == addr % 65536
        value == val % 256
        u == S.mmu
        cw == CartridgeWrite(S.cart, S.mbc, address, value)
    IN  IF address < \h8000 THEN [S EXCEPT !.cart = cw.cart, !.mbc = cw.mbc]
        ELSE IF address < \hA000 THEN
            [S EXCEPT !.mmu.vram = SparseSet(u.vram, address - \h8000, value, 0)]
        ELSE IF address < \hC000 THEN [S EXCEPT !.cart = cw.cart, !.mbc = cw.mbc]
        ELSE IF address < \hE000 THEN
            [S EXCEPT !.mmu.wram = SparseSet(u.wram, address - \hC000, value, 0)]
        ELSE IF address < \hFE00 THEN
            [S EXCEPT !.mmu.wram = SparseSet(u.wram, address - \hE000, value, 0)]
        ELSE IF address < \hFEA0 THEN
            [S EXCEPT !.mmu.oam = SparseSet(u.oam, address - \hFE00, value, 0)]
        ELSE IF address < \hFF00 THEN S
        ELSE IF address < \hFF80 THEN WriteIO(S, address - \hFF00, value)
        ELSE IF address < \hFFFF THEN
            [S EXCEPT !.mmu.hram = SparseSet(u.hram, address - \hFF80, value, 0)]
        ELSE [S EXCEPT !.mmu.io[\h7F] = value]

(***************************************************************************)
(* The CPU.                                                                *)
(***************************************************************************)
\* new CPU() and CPU.reset: the post-boot register state
NewCPU ==
    [registers |-> [A |-> \h01, F |-> \hB0, B |-> \h00, C |-> \h13,
                    D |-> \h00, E |-> \hD8, H |-> \h01, L |-> \h4D],
     SP |-> \hFFFE, PC |-> \h0100,
     IME |-> FALSE, halted |-> FALSE, stopped |-> FALSE,
     cycles |-> 0, totalCycles |-> 0]

FlagBit(flag) ==
    CASE flag = "Z" -> \h80 [] flag = "N" -> \h40 [] flag = "H" -> \h20 [] flag = "C" -> \h10

GetFlag(c, flag) == BitAnd(c.registers.F, FlagBit(flag)) # 0

SetFlag(c, flag, value) ==
    IF value
    THEN [c EXCEPT !.registers.F = BitOr(c.registers.F, FlagBit(flag))]
    ELSE [c EXCEPT !.registers.F = ClearBits(c.registers.F, FlagBit(flag))]

GetHL(c) == BitOr(c.registers.H * 256, c.registers.L)
SetHL(c, value) ==
    [c EXCEPT !.registers.H = (value \div 256) % 256, !.registers.L = value % 256]

GetBC(c) == BitOr(c.registers.B * 256, c.registers.C)
SetBC(c, value) ==
    [c EXCEPT !.registers.B = (value \div 256) % 256, !.registers.C = value % 256]

Read16(S, address) == BitOr(Read8(S, address), Read8(S, address + 1) * 256)

Write16(S, address, value) ==
    Write8(Write8(S, address, value % 256), address + 1, (value \div 256) % 256)

\* A faulty push16 that leaves SP unmasked
Push16NoWrap(S, value) ==
    LET sp == S.cpu.SP - 2
    IN  Write16([S EXCEPT !.cpu.SP = sp], sp, value)

Push16(S, value) ==
    LET sp == (S.cpu.SP + 65536 - 2) % 65536
    IN  Write16([S EXCEPT !.cpu.SP = sp], sp, value)

\* pop16: the value read, and the system with SP advanced
Pop16Value(S) == Read16(S, S.cpu.SP)
Pop16(S) == [S EXCEPT !.cpu.SP = (S.cpu.SP + 2) % 65536]

\* fetchByte / fetchWord: the value read, and the system with PC advanced
FetchByteValue(S) == Read8(S, S.cpu.PC)
FetchByte(S) == [S EXCEPT !.cpu.PC = (S.cpu.PC + 1) % 65536]
FetchWordValue(S) == Read16(S, S.cpu.PC)
FetchWord(S) == [S EXCEPT !.cpu.PC = (S.cpu.PC + 2) % 65536]

Inc8Result(value) == (value + 1) % 256
Inc8(c, value) ==
    SetFlag(SetFlag(SetFlag(c, "Z", Inc8Result(value) = 0), "N", FALSE),
            "H", BitAnd(value, \h0F) = \h0F)

Dec8Result(value) == (value + 255) % 256
Dec8(c, value) ==
    SetFlag(SetFlag(SetFlag(c, "Z", Dec8Result(value) = 0), "N", TRUE),
            "H", BitAnd(value, \h0F) = 0)

Add16Result(a, b) == (a + b) % 65536
Add16(c, a, b) ==
    SetFlag(SetFlag(SetFlag(c, "N", FALSE),
                    "H", BitAnd(a, \h0FFF) + BitAnd(b, \h0FFF) > \h0FFF),
            "C", a + b > \hFFFF)

\* A faulty setAF keeping the low four bits of the value in F
SetAFUnmasked(c, value) ==
    [c EXCEPT !.registers.A = (value \div 256) % 256, !.registers.F = value % 256]

\* setAF: A from the high byte, F from the low byte with its low four bits cleared
SetAF(c, value) ==
    [c EXCEPT !.registers.A = (value \div 256) % 256,
              !.registers.F = BitAnd(value, \hF0)]

\* add8 and sub8: the flags they set (the result is returned, not stored)
Add8(c, a, b) ==
    SetFlag(SetFlag(SetFlag(SetFlag(c, "Z", (a + b) % 256 = 0), "N", FALSE),
                    "H", BitAnd(a, \h0F) + BitAnd(b, \h0F) > \h0F),
            "C", a + b > \hFF)

Sub8(c, a, b) ==
    SetFlag(SetFlag(SetFlag(SetFlag(c, "Z", (a + 256 - b) % 256 = 0), "N", TRUE),
                    "H", BitAnd(a, \h0F) < BitAnd(b, \h0F)),
            "C", a < b)

\* RLCA and RRCA: rotate A, carry out of the rotated bit, Z N H cleared
Rotated(c, a, carry) ==
    SetFlag(SetFlag(SetFlag(SetFlag([c EXCEPT !.registers.A = a], "Z", FALSE),
                            "N", FALSE), "H", FALSE), "C", carry)

RLCA(c) ==
    LET carry == BitAnd(c.registers.A, \h80) # 0
    IN  Rotated(c, (c.registers.A * 2 + (IF carry THEN 1 ELSE 0)) % 256, carry)

RRCA(c) ==
    LET carry == BitAnd(c.registers.A, \h01) # 0
    IN  Rotated(c, (c.registers.A \div 2) + (IF carry THEN \h80 ELSE 0), carry)

\* The outcome of an instruction: the system, the cycles returned, or a throw
Done(S, n) == [s |-> S, cycles |-> n, thrown |-> FALSE]
Thrown(S) == [s |-> S, cycles |-> 0, thrown |-> TRUE]

\* this.instructions[opcode].call(this), with PC already past the opcode
Execute(S, opcode) ==
    LET c == S.cpu
        r == c.registers
    IN  CASE opcode = \h00 -> Done(S, 4)
          [] opcode = \h01 ->
                Done([FetchWord(S) EXCEPT !.cpu = SetBC(FetchWord(S).cpu, FetchWordValue(S))], 12)
          [] opcode = \h02 -> Done(Write8(S, GetBC(c), r.A), 8)
          [] opcode = \h03 -> Done([S EXCEPT !.cpu = SetBC(c, (GetBC(c) + 1) % 65536)], 8)
          [] opcode = \h04 ->
                Done([S EXCEPT !.cpu = [Inc8(c, r.B) EXCEPT !.registers.B = Inc8Result(r.B)]], 4)
          [] opcode = \h05 ->
                Done([S EXCEPT !.cpu = [Dec8(c, r.B) EXCEPT !.registers.B = Dec8Result(r.B)]], 4)
          [] opcode = \h06 ->
                Done([FetchByte(S) EXCEPT !.cpu.registers.B = FetchByteValue(S)], 8)
          [] opcode = \h07 -> Done([S EXCEPT !.cpu = RLCA(c)], 4)
          [] opcode = \h08 -> Done(Write16(FetchWord(S), FetchWordValue(S), c.SP), 20)
          [] opcode = \h09 ->
                Done([S EXCEPT !.cpu = SetHL(Add16(c, GetHL(c), GetBC(c)),
                                             Add16Result(GetHL(c), GetBC(c)))], 8)
          [] opcode = \h0A -> Done([S EXCEPT !.cpu.registers.A = Read8(S, GetBC(c))], 8)
          [] opcode = \h0B -> Done([S EXCEPT !.cpu = SetBC(c, (GetBC(c) + 65535) % 65536)], 8)
          [] opcode = \h0C ->
                Done([S EXCEPT !.cpu = [Inc8(c, r.C) EXCEPT !.registers.C = Inc8Result(r.C)]], 4)
          [] opcode = \h0D ->
                Done([S EXCEPT !.cpu = [Dec8(c, r.C) EXCEPT !.registers.C = Dec8Result(r.C)]], 4)
          [] opcode = \h0E ->
                Done([FetchByte(S) EXCEPT !.cpu.registers.C = FetchByteValue(S)], 8)
          [] opcode = \h0F -> Done([S EXCEPT !.cpu = RRCA(c)], 4)
          [] opcode = \h76 -> Done([S EXCEPT !.cpu.halted = TRUE], 4)
          [] opcode = \hC3 -> Done([S EXCEPT !.cpu.PC = FetchWordValue(S)], 16)
          [] opcode = \hC9 -> Done([Pop16(S) EXCEPT !.cpu.PC = Pop16Value(S)], 16)
          [] opcode = \hCD ->
                Done([Push16(FetchWord(S), FetchWord(S).cpu.PC) EXCEPT
                          !.cpu.PC = FetchWordValue(S)], 24)
          [] opcode = \hF3 -> Done([S EXCEPT !.cpu.IME = FALSE], 4)
          [] opcode = \hFB -> Done([S EXCEPT !.cpu.IME = TRUE], 4)
          \* every CB-prefixed handler throws, after the second byte is fetched
          [] opcode = \hCB -> Thrown(FetchByte(S))
          [] OTHER -> Thrown(S)

\* the test made by CPU.step: this.mmu.IE & this.mmu.IF
PendingInterrupts(u) == BitAnd(IE(u), IF_(u))

\* the lowest i in 0..4 with bit i set, or 5 when there is none
LowestBit(interrupts) ==
    IF \E i \in 0..4 : BitAnd(interrupts, Pow2(i)) # 0
    THEN CHOOSE i \in 0..4 :
            /\ BitAnd(interrupts, Pow2(i)) # 0
            /\ \A j \in 0..4 : BitAnd(interrupts, Pow2(j)) # 0 => i <= j
    ELSE 5

\* A faulty CPU.handleInterrupts serving the highest pending bit first (C2 rejects it)
HandleInterruptsHighestFirst(S) ==
    LET pending == PendingInterrupts(S.mmu)
        served == {i \in 0..4 : BitAnd(pending, Pow2(i)) # 0}
        i == IF served = {} THEN 5 ELSE CHOOSE k \in served : \A j \in served : j <= k
        S1 == [S EXCEPT !.cpu.IME = FALSE, !.cpu.halted = FALSE]
        S2 == [S1 EXCEPT !.mmu.io[\h0F] = ClearBits(S1.mmu.io[\h0F], Pow2(i))]
    IN  IF i < 5
        THEN [Push16(S2, S.cpu.PC) EXCEPT !.cpu.PC = \h40 + i * \h08]
        ELSE S1

HandleInterrupts(S) ==
    LET i == LowestBit(PendingInterrupts(S.mmu))
        S1 == [S EXCEPT !.cpu.IME = FALSE, !.cpu.halted = FALSE]
        S2 == [S1 EXCEPT !.mmu.io[\h0F] = ClearBits(S1.mmu.io[\h0F], Pow2(i))]
    IN  IF i < 5
        THEN [Push16(S2, S.cpu.PC) EXCEPT !.cpu.PC = \h40 + i * \h08]
        ELSE S1

\* the halted branch of CPU.step
HaltedStep(S) ==
    IF PendingInterrupts(S.mmu) # 0
    THEN [S EXCEPT !.cpu.halted = FALSE,
                   !.cpu.PC = IF ~S.cpu.IME THEN (S.cpu.PC + 65535) % 65536 ELSE S.cpu.PC]
    ELSE S

\* fetch, decode and execute one instruction, then account its cycles
InstructionStep(S) ==
    LET Account(r) ==
            IF r.thrown THEN r
            ELSE Done([r.s EXCEPT !.cpu.cycles = r.s.cpu.cycles + r.cycles,
                                  !.cpu.totalCycles = r.s.cpu.totalCycles + r.cycles],
                      r.cycles)
    IN  Account(Execute(FetchByte(S), FetchByteValue(S)))

\* A faulty CPU.step that charges no cycles for a halted CPU (C34 rejects it)
StepHaltedFree(S) ==
    IF S.cpu.stopped THEN Done(S, 4)
    ELSE IF S.cpu.IME /\ PendingInterrupts(S.mmu) # 0 THEN Done(HandleInterrupts(S), 20)
    ELSE IF S.cpu.halted THEN Done(HaltedStep(S), 0)
    ELSE InstructionStep(S)

\* CPU.step
Step(S) ==
    IF S.cpu.stopped THEN Done(S, 4)
    ELSE IF S.cpu.IME /\ PendingInterrupts(S.mmu) # 0 THEN Done(HandleInterrupts(S), 20)
    ELSE IF S.cpu.halted THEN Done(HaltedStep(S), 4)
    ELSE InstructionStep(S)

(***************************************************************************)
(* The PPU mode machine.                                                   *)
(***************************************************************************)
H_BLANK == 204
V_BLANK == 456
OAM_SCAN == 80
DRAWING == 172

\* new PPU() and the fields PPU.reset assigns
NewPPU == [cycles |-> 0, currentLine |-> 0, mode |-> 2, frameComplete |-> FALSE]

IsLCDEnabled(S) == BitAnd(S.mmu.io[\h40], \h80) # 0

SetLCDMode(S, mode) ==
    [S EXCEPT !.mmu.io[\h41] = BitOr(BitAnd(S.mmu.io[\h41], \hFC), BitAnd(mode, \h03))]

\* this.mmu.IF |= bits
RequestInterrupt(S, bits) == [S EXCEPT !.mmu.io[\h0F] = BitOr(S.mmu.io[\h0F], bits)]

\* a STAT interrupt when the given STAT enable bit is set
StatInterrupt(S, enableBit) ==
    IF BitAnd(S.mmu.io[\h41], enableBit) # 0 THEN RequestInterrupt(S, \h02) ELSE S

CheckLYC(S) ==
    IF S.ppu.currentLine = S.mmu.io[\h45]
    THEN StatInterrupt([S EXCEPT !.mmu.io[\h41] = BitOr(S.mmu.io[\h41], \h04)], \h40)
    ELSE [S EXCEPT !.mmu.io[\h41] = ClearBits(S.mmu.io[\h41], \h04)]

\* currentLine++ and the LY register (a Uint8Array element) updated
NextLine(S) ==
    [S EXCEPT !.ppu.currentLine = S.ppu.currentLine + 1,
              !.mmu.io[\h44] = (S.ppu.currentLine + 1) % 256]

\* A faulty case 2 that restarts the cycle count at the mode change, losing the
\* cycles beyond the 80 of the scan (C10 rejects it)
StepOamScanDropsCycles(S) ==
    IF S.ppu.cycles >= OAM_SCAN
    THEN SetLCDMode([S EXCEPT !.ppu.cycles = 0, !.ppu.mode = 3], 3)
    ELSE S

\* case 2 of PPU.step: OAM scan
StepOamScan(S) ==
    IF S.ppu.cycles >= OAM_SCAN
    THEN SetLCDMode([S EXCEPT !.ppu.cycles = S.ppu.cycles - OAM_SCAN, !.ppu.mode = 3], 3)
    ELSE S

\* case 3: drawing
StepDrawing(S) ==
    IF S.ppu.cycles >= DRAWING
    THEN StatInterrupt(
            SetLCDMode([S EXCEPT !.ppu.cycles = S.ppu.cycles - DRAWING, !.ppu.mode = 0], 0),
            \h08)
    ELSE S

\* entering V-blank at line 144
EnterVBlank(S) ==
    LET S1 == RequestInterrupt(SetLCDMode([S EXCEPT !.ppu.mode = 1], 1), \h01)
    IN  [StatInterrupt(S1, \h10) EXCEPT !.ppu.frameComplete = TRUE]

\* case 0: H-blank
StepHBlank(S) ==
    IF S.ppu.cycles >= H_BLANK
    THEN LET S1 == CheckLYC(NextLine([S EXCEPT !.ppu.cycles = S.ppu.cycles - H_BLANK]))
         IN  IF S1.ppu.currentLine = 144
             THEN EnterVBlank(S1)
             ELSE StatInterrupt(SetLCDMode([S1 EXCEPT !.ppu.mode = 2], 2), \h20)
    ELSE S

\* A faulty V-blank case that leaves frameComplete set on returning to line 0
\* (C39 rejects it)
StepVBlankKeepsFrameComplete(S) ==
    IF S.ppu.cycles >= V_BLANK
    THEN LET S1 == CheckLYC(NextLine([S EXCEPT !.ppu.cycles = S.ppu.cycles - V_BLANK]))
         IN  IF S1.ppu.currentLine = 154
             THEN StatInterrupt(
                     SetLCDMode([S1 EXCEPT !.ppu.currentLine = 0, !.mmu.io[\h44] = 0,
                                           !.ppu.mode = 2], 2),
                     \h20)
             ELSE S1
    ELSE S

\* case 1: V-blank
StepVBlank(S) ==
    IF S.ppu.cycles >= V_BLANK
    THEN LET S1 == CheckLYC(NextLine([S EXCEPT !.ppu.cycles = S.ppu.cycles - V_BLANK]))
         IN  IF S1.ppu.currentLine = 154
             THEN StatInterrupt(
                     SetLCDMode([S1 EXCEPT !.ppu.currentLine = 0, !.mmu.io[\h44] = 0,
                                           !.ppu.mode = 2, !.ppu.frameComplete = FALSE], 2),
                     \h20)
             ELSE S1
    ELSE S

\* PPU.step(cycles)
PPUStep(S, cycles) ==
    IF ~IsLCDEnabled(S) THEN S
    ELSE LET S1 == [S EXCEPT !.ppu.cycles = S.ppu.cycles + cycles]
         IN  CASE S1.ppu.mode = 2 -> StepOamScan(S1)
               [] S1.ppu.mode = 3 -> StepDrawing(S1)
               [] S1.ppu.mode = 0 -> StepHBlank(S1)
               [] S1.ppu.mode = 1 -> StepVBlank(S1)
               [] OTHER -> S1

\* PPU.reset
PPUReset(S) == SetLCDMode([S EXCEPT !.ppu = NewPPU, !.mmu.io[\h44] = 0], 2)

(***************************************************************************)
(* The system: reset, the timer and the frame loop.                        *)
(***************************************************************************)
cyclesPerFrame == 70224

\* GameBoy.updateTimer, called from updateIO after every CPU step
CyclesPerTick(clockSelect) ==
    CASE clockSelect = 0 -> 1024 [] clockSelect = 1 -> 16
      [] clockSelect = 2 -> 64 [] clockSelect = 3 -> 256

TimaTick(S) ==
    IF S.mmu.io[\h05] + 1 > \hFF
    THEN RequestInterrupt([S EXCEPT !.mmu.io[\h05] = S.mmu.io[\h06]], \h04)
    ELSE [S EXCEPT !.mmu.io[\h05] = S.mmu.io[\h05] + 1]

DivTick(S) ==
    IF S.cpu.totalCycles % 256 = 0
    THEN [S EXCEPT !.mmu.io[\h04] = (S.mmu.io[\h04] + 1) % 256]
    ELSE S

UpdateTimer(S) ==
    LET tac == S.mmu.io[\h07]
    IN  IF BitAnd(tac, \h04) # 0 /\ S.cpu.totalCycles % CyclesPerTick(BitAnd(tac, \h03)) = 0
        THEN DivTick(TimaTick(S))
        ELSE DivTick(S)

\* GameBoy.reset: cpu, ppu, (apu,) mmu, cartridge, in that order
Reset(S) ==
    LET S1 == PPUReset([S EXCEPT !.cpu = NewCPU])
    IN  [S1 EXCEPT !.mmu = MMUReset(S1.mmu),
                   !.cart = CartridgeReset(S1.cart),
                   !.mbc = MBCReset(S1.mbc)]

\* new GameBoy() followed by loadROM(image): the cartridge loaded, then reset()
LoadROM(img) ==
    Reset([cpu |-> NewCPU, mmu |-> NewMMU, ppu |-> NewPPU,
           cart |-> LoadedCartridge(img),
           mbc |-> NewMBC(SetupMBC(Images[img].cartridgeType))])

\* the components as one system record, and back
Sys == [cpu |-> cpu, mmu |-> mmu, ppu |-> ppu, cart |-> cart, mbc |-> mbc]

SysIs(S) ==
    /\ cpu' = S.cpu
    /\ mmu' = S.mmu
    /\ ppu' = S.ppu
    /\ cart' = S.cart
    /\ mbc' = S.mbc

NoOp == [kind |-> "none"]

\* runFrame not running: no call made yet
IdleFrame ==
    [pc |-> "idle", cycles |-> 0, calls |-> 0, cpuCycles |-> 0, thrown |-> FALSE, vblanks |-> 0]

\* The number of runFrame calls a run makes
MaxCalls == 10

\* GameBoy.runFrame is entered: let cycles = 0
RunFrameCall ==
    /\ gb.pc = "idle"
    /\ gb.calls < MaxCalls
    /\ gb' = [gb EXCEPT !.pc = "loop", !.cycles = 0, !.vblanks = 0]
    /\ UNCHANGED <<cpu, mmu, ppu, cart, mbc, busOp>>

\* one pass of the body of runFrame's loop after a CPU step that returned
LoopBody(S, cpuCycles) == UpdateTimer(PPUStep(S, cpuCycles))

\* the number of V-blank requests (IF |= 0x01, made on entering line 144) that
\* the PPU makes in going from S to T in one step
VBlankRequests(S, T) ==
    IF S.ppu.currentLine = 143 /\ T.ppu.currentLine = 144 THEN 1 ELSE 0

\* One iteration of runFrame's while loop, up to the test that ends the loop;
\* an exception thrown by cpu.step() leaves runFrame at once.
RunFrameIter ==
    /\ gb.pc = "loop"
    /\ LET Rest(r, S) ==
               LET cycles == gb.cycles + r.cycles
                   leave == r.thrown \/ S.ppu.frameComplete \/ ~(cycles < cyclesPerFrame)
               IN  /\ SysIs(S)
                   /\ gb' = [pc |-> IF leave THEN "idle" ELSE "loop",
                             cycles |-> cycles,
                             calls |-> IF leave THEN gb.calls + 1 ELSE gb.calls,
                             cpuCycles |-> r.cycles,
                             thrown |-> gb.thrown \/ r.thrown,
                             vblanks |-> gb.vblanks + VBlankRequests(Sys, S)]
           Body(r) == Rest(r, IF r.thrown THEN r.s ELSE LoopBody(r.s, r.cycles))
       IN  Body(Step(Sys))
    /\ UNCHANGED busOp

Init ==
    /\ \E img \in ImageIds : LET S == LoadROM(img)
                             IN  /\ cpu = S.cpu
                                 /\ mmu = S.mmu
                                 /\ ppu = S.ppu
                                 /\ cart = S.cart
                                 /\ mbc = S.mbc
    /\ gb = IdleFrame
    /\ busOp = NoOp

Next == RunFrameCall \/ RunFrameIter

Spec == Init /\ [][Next]_vars

(***************************************************************************)
(* The cartridge on its own: bus reads and writes of the cartridge-owned   *)
(* regions (MMU.read8 and MMU.write8 hand 0x0000..0x7FFF and 0xA000..0xBFFF*)
(* to Cartridge.read and Cartridge.write), and Cartridge.reset.            *)
(***************************************************************************)
\* Addresses written: one in every register range of every controller (bit 8
\* set and clear for MBC2), and the first and last byte of external RAM
WriteAddrs == {\h0000, \h0100, \h2000, \h3000, \h4000, \h6000, \hA000, \hBFFF}

\* Addresses read: both ROM regions (0x40EF holds a stored zero in bank 1) and
\* external RAM
ReadAddrs == {\h0000, \h4000, \h40EF, \h7FFF, \hA000, \hBFFF}

\* Bytes written: RAM enable (0x0A, 0x1A) and not, bank numbers with and without
\* bits above the low five, zero
BusValues == {\h00, \h01, \h05, \h0A, \h1A, \h23}

\* The number of bus accesses a run makes
MaxOps == 4

CartInit ==
    /\ \E img \in ImageIds :
          /\ cart = LoadedCartridge(img)
          /\ mbc = NewMBC(SetupMBC(Images[img].cartridgeType))
    /\ cpu = NewCPU
    /\ mmu = NewMMU
    /\ ppu = NewPPU
    /\ gb = IdleFrame
    /\ busOp = [kind |-> "none", count |-> 0]

\* MMU.write8 of a cartridge-owned address
BusWrite ==
    /\ busOp.count < MaxOps
    /\ \E address \in WriteAddrs, value \in BusValues :
          LET cw == CartridgeWrite(cart, mbc, address, value)
          IN  /\ cart' = cw.cart
              /\ mbc' = cw.mbc
              /\ busOp' = [kind |-> "write", address |-> address, value |-> value,
                           count |-> busOp.count + 1]
    /\ UNCHANGED <<cpu, mmu, ppu, gb>>

\* MMU.read8 of a cartridge-owned address
BusRead ==
    /\ busOp.count < MaxOps
    /\ \E address \in ReadAddrs :
          busOp' = [kind |-> "read", address |-> address,
                    value |-> CartridgeRead(cart, mbc, address),
                    count |-> busOp.count + 1]
    /\ UNCHANGED <<cpu, mmu, ppu, cart, mbc, gb>>

\* Cartridge.reset, as made by GameBoy.reset
BusReset ==
    /\ busOp.count < MaxOps
    /\ cart' = CartridgeReset(cart)
    /\ mbc' = MBCReset(mbc)
    /\ busOp' = [kind |-> "reset", count |-> busOp.count + 1]
    /\ UNCHANGED <<cpu, mmu, ppu, gb>>

CartNext == BusWrite \/ BusRead \/ BusReset

SpecMBC == CartInit /\ [][CartNext]_vars

(***************************************************************************)
(* Properties of the cartridge, stated on the bus accesses of SpecMBC.     *)
(* busOp' is the access a step makes: for a read its value is the byte     *)
(* returned, for a write the byte stored.                                  *)
(***************************************************************************)
\* the bank of external RAM that read() and write() of the controller index
CurrentRamBank(m) ==
    CASE m.kind = "MBC1" -> MBC1RamBank(m)
      [] m.kind = "MBC3" -> m.ramRtcBank
      [] m.kind = "MBC5" -> m.ramBank
      [] OTHER -> 0

\* the address range whose writes set the RAM-enable flag of the controller
IsRamEnableAddress(m, address) ==
    CASE m.kind = "MBC2" -> address < \h4000 /\ (address \div 256) % 2 = 0
      [] m.kind \in {"MBC1", "MBC3", "MBC5"} -> address < \h2000
      [] OTHER -> FALSE

\* C6: for MBC1, a write of v to 0x2000..0x3FFF selects bank b = v & 0x1F (1
\* when that is 0), and a read of 0x4000+k then returns exactly the ROM byte
\* stored at b*0x4000 + k, whatever its value, 0x00 included.  Stated for a
\* secondary register of 0 and a bank the image holds, where nothing but the
\* low register decides the bank.
C6_Mbc1BankedReadReturnsStoredByte ==
    [][ /\ ( /\ mbc.kind = "MBC1"
             /\ busOp'.kind = "write"
             /\ busOp'.address >= \h2000 /\ busOp'.address < \h4000
             => mbc'.romBank = (IF busOp'.value % 32 = 0 THEN 1 ELSE busOp'.value % 32) )
        /\ ( /\ mbc.kind = "MBC1"
             /\ busOp'.kind = "read"
             /\ busOp'.address >= \h4000 /\ busOp'.address < \h8000
             /\ mbc.ramBank = 0
             /\ mbc.romBank < cart.romBankCount
             => busOp'.value =
                    RomAt(cart.image, mbc.romBank * \h4000 + (busOp'.address - \h4000)) )
      ]_vars

\* C7: for MBC1 in banking mode 0, a read of 0x0000..0x3FFF returns the byte of
\* bank 0 and a read of 0x4000..0x7FFF the byte of bank (secondary << 5) | low.
\* Stated where the byte of that bank is stored and is not 0x00.
C7_Mbc1RomModeUsesSecondaryRegister ==
    [][ /\ mbc.kind = "MBC1" /\ mbc.bankingMode = 0 /\ busOp'.kind = "read"
        => LET address == busOp'.address
               bank == mbc.ramBank * 32 + mbc.romBank
               expected == IF address < \h4000 THEN RomAt(cart.image, address)
                           ELSE RomAt(cart.image, bank * \h4000 + (address - \h4000))
           IN  address < \h8000 /\ expected > 0 => busOp'.value = expected
      ]_vars

\* C8: the controller starts with RAM disabled; while RAM is disabled every read
\* of 0xA000..0xBFFF returns 0xFF and every write there leaves the RAM contents
\* unchanged; a reset and an enable-range write whose low nibble is not 0x0A
\* leave RAM disabled; RAM goes from disabled to enabled only by an enable-range
\* write whose low nibble is 0x0A.
C8_DisabledRamIsInert ==
    /\ ~mbc.ramEnabled
    /\ [][ /\ ( busOp'.kind = "read" /\ InRam(busOp'.address) /\ ~mbc.ramEnabled
                => busOp'.value = \hFF )
           /\ ( busOp'.kind = "write" /\ InRam(busOp'.address) /\ ~mbc.ramEnabled
                => cart'.ram = cart.ram /\ mbc'.internalRam = mbc.internalRam )
           /\ ( busOp'.kind = "reset" => ~mbc'.ramEnabled )
           /\ ( /\ busOp'.kind = "write"
                /\ IsRamEnableAddress(mbc, busOp'.address)
                /\ busOp'.value % 16 # \h0A
                => ~mbc'.ramEnabled )
           /\ ( ~mbc.ramEnabled /\ mbc'.ramEnabled
                => /\ busOp'.kind = "write"
                   /\ IsRamEnableAddress(mbc, busOp'.address)
                   /\ busOp'.value % 16 = \h0A )
         ]_vars

\* C8 witness: a byte was stored in RAM, RAM was disabled again, and a read of
\* the RAM region was then made
C8_Witness ==
    /\ busOp.kind = "read" /\ InRam(busOp.address)
    /\ ~mbc.ramEnabled
    /\ (cart.ram # EmptyMem \/ mbc.internalRam # EmptyMem)

\* C9: with RAM present, enabled and a bank the RAM holds selected, a write of v
\* to A in 0xA000..0xBFFF changes only the byte at A - 0xA000 of that bank, and a
\* read of A that follows it returns v, 0x00 included.
C9_RamWriteThenReadReturnsValue ==
    [][ /\ ( /\ busOp'.kind = "write" /\ InRam(busOp'.address)
             /\ cart.hasRam /\ mbc.ramEnabled
             /\ CurrentRamBank(mbc) < cart.ramBankCount
             => LET off == CurrentRamBank(mbc) * \h2000 + (busOp'.address - \hA000)
                IN  \A o \in (DOMAIN cart.ram \cup DOMAIN cart'.ram) \ {off} :
                        SparseGet(cart'.ram, o, \hFF) = SparseGet(cart.ram, o, \hFF) )
        /\ ( /\ busOp.kind = "write" /\ InRam(busOp.address)
             /\ cart.hasRam /\ mbc.ramEnabled
             /\ CurrentRamBank(mbc) < cart.ramBankCount
             /\ busOp'.kind = "read" /\ busOp'.address = busOp.address
             => busOp'.value = busOp.value )
      ]_vars

(***************************************************************************)
(* The CPU alone: CPU.step applied to CPU states a program or loadState    *)
(* can set up, with interrupt requests arriving between steps.             *)
(***************************************************************************)
\* Cartridges run: HALT first (2), and a program that enables interrupts (6)
CpuImages == {2, 6}

\* PC at the entry point, just after the HALT of image 2, just after that of image 6
PCValues == {\h0100, \h0101, \h0109}

\* SP as reset leaves it, in work RAM, and where a push stores into IF (0xFF0F)
SPValues == {\hFFFE, \hC002, \hFF11, \hFF10}

\* IE: nothing enabled, bits 0, 2 and 4, and the power-up value
IEValues == {\h00, \h15, \hFF}

\* IF: nothing, bits 5..7 only, the power-up value, and requests in bits 0..4
IFValues == {\h00, \hE0, \hE1, \h0A, \h1C, \h18, \h10}

\* the interrupt sources that raise a request between steps: V-blank and serial
InterruptBits == {0, 3}

\* The number of steps and requests a run makes
MaxSteps == 3

CpuInit ==
    /\ \E img \in CpuImages, pc \in PCValues, sp \in SPValues, ime \in BOOLEAN,
          halted \in BOOLEAN, ie \in IEValues, if \in IFValues :
          /\ cart = LoadedCartridge(img)
          /\ mbc = NewMBC(SetupMBC(Images[img].cartridgeType))
          /\ cpu = [NewCPU EXCEPT !.PC = pc, !.SP = sp, !.IME = ime, !.halted = halted]
          /\ mmu = [NewMMU EXCEPT !.io[\h7F] = ie, !.io[\h0F] = if]
          \* the CPU is halted only just after a HALT
          /\ halted => CartridgeRead(cart, mbc, pc - 1) = \h76
    /\ ppu = NewPPU
    /\ gb = IdleFrame
    /\ busOp = [kind |-> "none", count |-> 0]

\* one call of CPU.step; busOp' records what it returned and whether it threw
CpuStep ==
    /\ busOp.count < MaxSteps
    /\ busOp.kind = "step" => ~busOp.thrown
    /\ LET Record(r) ==
               /\ SysIs(r.s)
               /\ busOp' = [kind |-> "step", cycles |-> r.cycles, thrown |-> r.thrown,
                            count |-> busOp.count + 1]
       IN  Record(Step(Sys))
    /\ UNCHANGED gb

\* a device requests an interrupt: mmu.IF |= 1 << bit
RaiseInterrupt ==
    /\ busOp.count < MaxSteps
    /\ busOp.kind = "step" => ~busOp.thrown
    /\ \E bit \in InterruptBits :
          /\ SysIs(RequestInterrupt(Sys, Pow2(bit)))
          /\ busOp' = [kind |-> "irq", bit |-> bit, count |-> busOp.count + 1]
    /\ UNCHANGED gb

CpuNext == CpuStep \/ RaiseInterrupt

SpecCPU == CpuInit /\ [][CpuNext]_vars

(***************************************************************************)
(* Properties of CPU.step, stated on the steps of SpecCPU: the unprimed    *)
(* variables are the state a step starts in, the primed ones the state it  *)
(* leaves, busOp'.cycles the number it returns.                            *)
(***************************************************************************)
\* IE & IF & 0x1F in the current state
MaskedPending == BitAnd(BitAnd(IE(mmu), IF_(mmu)), \h1F)

\* the lowest i in 0..4 with bit i of x set (x has one)
LowestSetBit(x) ==
    CHOOSE i \in 0..4 : (x \div Pow2(i)) % 2 = 1 /\ \A j \in 0..(i - 1) : (x \div Pow2(j)) % 2 = 0

\* addresses that store what is written to them and nothing else: work RAM and high RAM
IsPlainRam(address) ==
    (address >= \hC000 /\ address < \hE000) \/ (address >= \hFF80 /\ address < \hFFFF)

\* What a dispatch does apart from IF: no instruction is executed (registers and
\* the executed-cycle counters keep their values, the cartridge and PPU are
\* untouched when the stack is in RAM), IME and halted are cleared, PC is pushed,
\* PC becomes the vector of the lowest pending bit, and 20 is returned.
DispatchEffect ==
    LET i == LowestSetBit(MaskedPending)
        hi == (cpu.SP + 65535) % 65536
        lo == (cpu.SP + 65534) % 65536
    IN  /\ busOp'.cycles = 20 /\ ~busOp'.thrown
        /\ ~cpu'.IME /\ ~cpu'.halted
        /\ cpu'.PC = \h40 + 8 * i
        /\ cpu'.SP = lo
        /\ cpu'.registers = cpu.registers
        /\ cpu'.totalCycles = cpu.totalCycles
        /\ IsPlainRam(hi) /\ IsPlainRam(lo)
           => /\ Read8([Sys EXCEPT !.mmu = mmu'], hi) = cpu.PC \div 256
              /\ Read8([Sys EXCEPT !.mmu = mmu'], lo) = cpu.PC % 256
              /\ cart' = cart /\ mbc' = mbc /\ ppu' = ppu
        /\ IE(mmu') = IE(mmu)

\* C2 as stated: a step with IME set and a bit of 0..4 pending dispatches, and
\* IF loses exactly the lowest pending bit, every other bit of IF unchanged.
C2_DispatchClearsOnlyLowestBit ==
    [][ busOp'.kind = "step" /\ cpu.IME /\ MaskedPending # 0
        => /\ DispatchEffect
           /\ IF_(mmu') = IF_(mmu) - Pow2(LowestSetBit(MaskedPending))
      ]_vars

\* C2, amended: a step with IME set and a bit of 0..4 pending dispatches; IF
\* loses exactly the lowest pending bit, every other bit unchanged, unless the
\* push of PC stores into IF itself (SP is 0xFF10 or 0xFF11), and then IF
\* holds the byte of PC that was stored there.
C2_DispatchClearsLowestBitUnlessPushed ==
    [][ busOp'.kind = "step" /\ cpu.IME /\ MaskedPending # 0
        => /\ DispatchEffect
           /\ IF_(mmu') = ( IF cpu.SP = \hFF11 THEN cpu.PC % 256
                            ELSE IF cpu.SP = \hFF10 THEN cpu.PC \div 256
                            ELSE IF_(mmu) - Pow2(LowestSetBit(MaskedPending)) )
      ]_vars

\* C2 witness: the serial interrupt (bit 3) was dispatched with the stack in
\* work RAM, leaving bit 4 of IF pending
C2_Witness ==
    /\ busOp.kind = "step" /\ busOp.cycles = 20
    /\ cpu.PC = \h58 /\ cpu.SP = \hC000
    /\ IF_(mmu) = \h10
    /\ ~cpu.IME

\* C3: a step with IME set, the CPU not halted and IE & IF & 0x1F = 0 takes no
\* interrupt path, whatever bits 5..7 of IE and IF hold: it is the fetch and
\* execution of the next instruction.
C3_NoDispatchWithoutMaskedPending ==
    [][ busOp'.kind = "step" /\ cpu.IME /\ ~cpu.halted /\ MaskedPending = 0
        => /\ busOp'.cycles = InstructionStep(Sys).cycles
           /\ busOp'.thrown = InstructionStep(Sys).thrown
           /\ Sys' = InstructionStep(Sys).s
      ]_vars

\* C4: a step of the CPU halted with IME clear and an enabled interrupt pending
\* clears halted without dispatching and leaves PC at the byte following the
\* HALT, so that this byte is what is executed next.
C4_HaltWakeContinuesAfterHalt ==
    [][ busOp'.kind = "step" /\ cpu.halted /\ ~cpu.IME /\ MaskedPending # 0
        => /\ ~cpu'.halted /\ ~cpu'.IME
           /\ cpu'.SP = cpu.SP /\ mmu' = mmu
           /\ cpu'.PC = cpu.PC
      ]_vars

\* C5: a step of the halted CPU with IE & IF & 0x1F = 0 returns 4 and changes
\* nothing, whatever bits 5..7 of IE and IF hold.
C5_HaltedStepWithoutPendingIsInert ==
    [][ busOp'.kind = "step" /\ cpu.halted /\ MaskedPending = 0
        => /\ busOp'.cycles = 4
           /\ Sys' = Sys
      ]_vars

(***************************************************************************)
(* The PPU alone: PPU.step fed instruction-sized cycle counts, with the    *)
(* V-blank request acknowledged between steps as the CPU's dispatch does.  *)
(* gb.cycles is the number of cycles fed to PPU.step so far.               *)
(***************************************************************************)
\* the values cpu.step() returns that PPU.step receives
StepCycles == {4, 8, 12, 16, 20, 24}

\* STAT as initIO leaves it, and with every STAT interrupt source enabled
StatValues == {\h85, \hFD}

\* Cycles fed to the PPU in a run: two frames
MaxPpuCycles == 140448

PpuInit ==
    /\ \E stat \in StatValues :
          LET S == LoadROM(1)
          IN  /\ cpu = S.cpu
              /\ mmu = [S.mmu EXCEPT !.io[\h41] = stat]
              /\ ppu = S.ppu
              /\ cart = S.cart
              /\ mbc = S.mbc
    /\ gb = IdleFrame
    /\ busOp = NoOp

\* PPU.step(c)
PpuStepCall ==
    /\ gb.cycles < MaxPpuCycles
    /\ \E c \in StepCycles :
          /\ SysIs(PPUStep(Sys, c))
          /\ gb' = [gb EXCEPT !.cycles = gb.cycles + c]
    /\ UNCHANGED busOp

\* the V-blank request is served: this.mmu.IF &= ~(1 << 0)
AckVBlank ==
    /\ BitAnd(IF_(mmu), \h01) # 0
    /\ mmu' = [mmu EXCEPT !.io[\h0F] = ClearBits(mmu.io[\h0F], \h01)]
    /\ UNCHANGED <<cpu, ppu, cart, mbc, gb, busOp>>

PpuNext == PpuStepCall \/ AckVBlank

SpecPPU == PpuInit /\ [][PpuNext]_vars

\* the PPU's position in the frame: the cycles from the start of line 0 to the
\* start of the current mode of the current line, plus the cycles into the mode
FramePosition ==
    ppu.currentLine * 456 + ppu.cycles
    + (CASE ppu.mode = 3 -> 80 [] ppu.mode = 0 -> 80 + 172 [] OTHER -> 0)

\* C10: with the LCD on and steps of 4..24 cycles, no cycle is lost or gained at
\* a mode change (the position in the 70,224-cycle frame is the number of cycles
\* fed, modulo 70,224); IF bit 0 is set exactly by the step that takes
\* currentLine from 143 to 144, which ends mode 0, enters mode 1 and happens at
\* cycle 65,664 of the frame, so that consecutive requests are 70,224 cycles
\* apart; and line 153 is followed by line 0 in mode 2.
C10_VBlankOncePerFrameOfExactLength ==
    /\ [](FramePosition < 70224 /\ gb.cycles % 70224 = FramePosition)
    /\ [][ /\ ( ppu.currentLine = 143 /\ ppu'.currentLine = 144
                => /\ ppu.mode = 0 /\ ppu'.mode = 1
                   /\ BitAnd(IF_(mmu'), \h01) = 1
                   /\ (gb'.cycles - ppu'.cycles) % 70224 = 65664 )
           /\ ( BitAnd(IF_(mmu), \h01) = 0 /\ BitAnd(IF_(mmu'), \h01) = 1
                => ppu.currentLine = 143 /\ ppu'.currentLine = 144 )
           /\ ( ppu.currentLine = 153 /\ ppu'.currentLine # 153
                => ppu'.currentLine = 0 /\ ppu'.mode = 2 )
           /\ ( ppu'.currentLine # ppu.currentLine /\ ppu.currentLine # 153
                => ppu'.currentLine = ppu.currentLine + 1 )
         ]_vars

\* C10 witness: the second V-blank request, 70,224 cycles after the first at
\* cycle 65,664, with every STAT interrupt source enabled
C10_Witness ==
    /\ gb.cycles - ppu.cycles = 65664 + 70224
    /\ ppu.currentLine = 144 /\ ppu.mode = 1
    /\ BitAnd(IF_(mmu), \h01) = 1
    /\ BitAnd(mmu.io[\h41], \h78) = \h78

(***************************************************************************)
(* Properties of the frame loop, stated on Spec.                           *)
(***************************************************************************)
\* C1: every runFrame() call that returns has run exactly one frame: it fed
\* 70,224 cycles, latched the V-blank request exactly once, and the executed
\* cycle total stands at 70,224 times the number of calls made (702,240 after
\* ten).
C1_RunFrameAdvancesOneWholeFrame ==
    gb.pc = "idle" /\ gb.calls > 0 /\ ~gb.thrown
    => /\ cpu.totalCycles = gb.calls * 70224
       /\ gb.cycles = 70224
       /\ gb.vblanks = 1

(***************************************************************************)
(* Properties of the LCD registers.                                        *)
(***************************************************************************)
\* C11: in every reachable state, the state reset leaves included, the PPU's
\* mode equals the low two bits of STAT: ppu.mode = io[0x41] & 0x03.
C11_StatModeBitsEqualPpuMode ==
    ppu.mode = mmu.io[\h41] % 4

(***************************************************************************)
(* The PPU with a CPU that writes the LCD registers between PPU steps.     *)
(* The PPU's states repeat every frame, so a run needs no cycle bound.     *)
(***************************************************************************)
\* the cycle count of the longest instruction, fed to PPU.step
LcdStepCycles == {24}

\* CPU writes to LCDC (off, on), STAT (no source, every source enabled),
\* LY (any value) and LYC (line 0, line 144)
LcdWrites ==
    {<<\hFF40, \h11>>, <<\hFF40, \h91>>, <<\hFF41, \h00>>, <<\hFF41, \h78>>,
     <<\hFF44, \h00>>, <<\hFF44, \h99>>, <<\hFF45, \h00>>, <<\hFF45, \h90>>}

\* The number of register writes a run makes
MaxIoWrites == 2

LcdInit ==
    /\ LET S == LoadROM(1)
       IN  /\ cpu = S.cpu
           /\ mmu = S.mmu
           /\ ppu = S.ppu
           /\ cart = S.cart
           /\ mbc = S.mbc
    /\ gb = IdleFrame
    /\ busOp = [kind |-> "none", count |-> 0]

\* PPU.step(c)
LcdStep ==
    /\ \E c \in LcdStepCycles : SysIs(PPUStep(Sys, c))
    /\ busOp' = [kind |-> "ppu", count |-> busOp.count]
    /\ UNCHANGED gb

\* MMU.write8 of an LCD register by the CPU
LcdWrite ==
    /\ busOp.count < MaxIoWrites
    /\ \E w \in LcdWrites :
          /\ SysIs(Write8(Sys, w[1], w[2]))
          /\ busOp' = [kind |-> "write", address |-> w[1], value |-> w[2],
                       count |-> busOp.count + 1]
    /\ UNCHANGED gb

LcdNext == LcdStep \/ LcdWrite

SpecLCD == LcdInit /\ [][LcdNext]_vars

\* C12: STAT bit 2 is set exactly when the PPU's current line equals LYC, after
\* any interleaving of PPU steps and CPU writes to LYC, LY and STAT.
C12_CoincidenceBitReflectsLineEqualsLyc ==
    ((mmu.io[\h41] \div 4) % 2 = 1) <=> (ppu.currentLine = mmu.io[\h45])

\* C13: whenever LCDC bit 7 is 0 the PPU rests in mode 0 on line 0, LY reads 0
\* and the mode bits of STAT read 0.
C13_LcdOffMeansModeZeroLineZero ==
    ~IsLCDEnabled(Sys) =>
        /\ ppu.mode = 0
        /\ ppu.currentLine = 0
        /\ Read8(Sys, \hFF44) = 0
        /\ Read8(Sys, \hFF41) % 4 = 0

\* C14: immediately after a CPU write of any value to LY (0xFF44) both the LY
\* register and the PPU's current scanline are 0.
C14_LyWriteResetsLineCounter ==
    [][(busOp'.kind = "write" /\ busOp'.address = \hFF44)
          => (mmu'.io[\h44] = 0 /\ ppu'.currentLine = 0)]_vars

(***************************************************************************)
(* CPU accesses to work RAM, echo RAM and the interrupt and serial         *)
(* registers through the MMU.                                              *)
(***************************************************************************)
\* both ends of work RAM's mirrored part, the first byte above it, both ends
\* of echo RAM, SB, IF and IE
MemAddrs == {\hC000, \hDDFF, \hDE00, \hE000, \hFDFF, \hFF01, \hFF0F, \hFFFF}
MemValues == {\h00, \h1F, \hA5}

\* The number of writes a run makes
MaxMemWrites == 3

\* MMU.write8(address, value)
MemWrite ==
    /\ busOp.count < MaxMemWrites
    /\ \E address \in MemAddrs, value \in MemValues :
          /\ SysIs(Write8(Sys, address, value))
          /\ busOp' = [kind |-> "write", address |-> address, value |-> value,
                       count |-> busOp.count + 1]
    /\ UNCHANGED gb

\* GameBoy.reset()
MemReset ==
    /\ busOp.count < MaxMemWrites
    /\ SysIs(Reset(Sys))
    /\ busOp' = [kind |-> "reset", address |-> Undefined, value |-> Undefined,
                 count |-> busOp.count + 1]
    /\ UNCHANGED gb

SpecMem == LcdInit /\ [][MemWrite \/ MemReset]_vars

EchoAddrs == {A \in MemAddrs : \hE000 <= A /\ A < \hFE00}

\* C15: echo RAM aliases work RAM in both directions: after every write8,
\* each echo address A reads the same byte as A - 0x2000; a write8(A, v) makes
\* read8(A - 0x2000) return v, and a write8(A - 0x2000, v) makes read8(A)
\* return v.
C15_EchoRamAliasesWorkRam ==
    [][/\ \A A \in EchoAddrs : Read8(Sys', A) = Read8(Sys', A - \h2000)
       /\ busOp'.address \in EchoAddrs
             => Read8(Sys', busOp'.address - \h2000) = busOp'.value
       /\ busOp'.address + \h2000 \in EchoAddrs
             => Read8(Sys', busOp'.address + \h2000) = busOp'.value]_vars

\* a byte written through echo RAM is read back through work RAM, and one
\* written through work RAM is read back through echo RAM
C15_Witness ==
    /\ busOp.kind = "write" /\ busOp.address = \hFDFF /\ busOp.value = \hA5
    /\ Read8(Sys, \hDDFF) = \hA5
    /\ Read8(Sys, \hE000) = \h1F
    /\ SparseGet(mmu.wram, 0, 0) = \h1F

(***************************************************************************)
(* The CPU's registers: steps from states at the ends of the address       *)
(* space, steps that follow a throw, and calls of the flag helpers.        *)
(***************************************************************************)
\* The number of steps and calls a run makes
MaxRegOps == 3

\* A ROM-only cartridge whose bytes outside the entry code are their own
\* offset's low byte, so that PC selects the opcode fetched: 0x0100 the entry
\* point, 0x01D3 an undefined opcode, 0x0204 INC B, 0x0209 ADD HL,BC, and
\* 0xFFFF, where the opcode fetched is IE (NOP, HALT, CALL or RET).
RegInit ==
    /\ \E pc \in {\h0100, \h01D3, \h0204, \h0209, \hFFFF},
          sp \in {\hFFFE, \hFFFF, \h0000, \h0001},
          ie \in {\h00, \h76, \hCD, \hC9}, if \in {\hE1, \h02}, ime \in BOOLEAN :
          /\ cart = LoadedCartridge(1)
          /\ mbc = NewMBC(SetupMBC(Images[1].cartridgeType))
          /\ cpu = [NewCPU EXCEPT !.PC = pc, !.SP = sp, !.IME = ime]
          /\ mmu = [NewMMU EXCEPT !.io[\h7F] = ie, !.io[\h0F] = if]
    /\ ppu = NewPPU
    /\ gb = IdleFrame
    /\ busOp = [kind |-> "none", count |-> 0]

\* one call of CPU.step, whether or not an earlier call threw; busOp' records
\* PC and SP before the call, the opcode it fetched (Undefined when it
\* dispatched an interrupt or the CPU stayed halted) and what it returned
RegStep ==
    /\ busOp.count < MaxRegOps
    /\ LET fetches == /\ ~cpu.stopped
                      /\ ~(cpu.IME /\ PendingInterrupts(mmu) # 0)
                      /\ ~cpu.halted
           Record(r) ==
               /\ SysIs(r.s)
               /\ busOp' = [kind |-> "step", cycles |-> r.cycles, thrown |-> r.thrown,
                            opcode |-> IF fetches THEN FetchByteValue(Sys) ELSE Undefined,
                            pc |-> cpu.PC, sp |-> cpu.SP, count |-> busOp.count + 1]
       IN  Record(Step(Sys))
    /\ UNCHANGED gb

\* a call of setAF, add8 or sub8 on the CPU
RegCall ==
    /\ busOp.count < MaxRegOps
    /\ \E op \in {"setAF", "add8", "sub8"}, a \in {\h00, \h12, \hFF}, b \in {\h01, \hFF} :
          /\ cpu' = CASE op = "setAF" -> SetAF(cpu, a * 256 + b)
                      [] op = "add8" -> Add8(cpu, a, b)
                      [] op = "sub8" -> Sub8(cpu, a, b)
          /\ busOp' = [kind |-> "call", op |-> op, a |-> a, b |-> b,
                       count |-> busOp.count + 1]
    /\ UNCHANGED <<mmu, ppu, cart, mbc, gb>>

SpecRegs == RegInit /\ [][RegStep \/ RegCall]_vars

\* C16: after reset, and after any sequence of steps, flag updates and setAF
\* calls with arbitrary 16-bit values, the low four bits of F are zero.
C16_FlagLowNibbleZero ==
    cpu.registers.F % 16 = 0

\* setAF(0xFFFF) has stored 0xF0 in F
C16_Witness ==
    /\ busOp.kind = "call" /\ busOp.op = "setAF" /\ busOp.a = \hFF /\ busOp.b = \hFF
    /\ cpu.registers.A = \hFF
    /\ cpu.registers.F = \hF0

\* C17: SP and PC stay in 0..0xFFFF and every step moves SP by 0, +2 or -2
\* modulo 2^16: a push at SP = 0x0000 or 0x0001 leaves 0xFFFE or 0xFFFF, a
\* pop at SP = 0xFFFE or 0xFFFF leaves 0x0000 or 0x0001, a fetch at
\* PC = 0xFFFF continues at 0x0000, and the HALT wake-up at PC = 0 leaves
\* 0xFFFF.
C17_StackPointerAndProgramCounterWrap ==
    [][busOp'.kind = "step" =>
          /\ cpu'.SP \in 0..65535
          /\ cpu'.PC \in 0..65535
          /\ (cpu'.SP + 65536 - cpu.SP) % 65536 \in {0, 2, 65534}
          /\ (busOp'.opcode = \hC9 /\ cpu.SP >= \hFFFE) => cpu'.SP = cpu.SP - \hFFFE
          /\ (busOp'.opcode = \hCD /\ cpu.SP <= 1) => cpu'.SP = cpu.SP + \hFFFE
          /\ (busOp'.opcode = \h00 /\ cpu.PC = \hFFFF) => cpu'.PC = 0
          /\ (cpu.halted /\ ~cpu'.halted /\ ~cpu.IME /\ cpu.PC = 0) => cpu'.PC = \hFFFF]_vars

\* the CALL fetched at PC = 0xFFFF has pushed at SP = 0x0001
C17_Witness ==
    /\ busOp.kind = "step" /\ busOp.opcode = \hCD
    /\ busOp.pc = \hFFFF /\ busOp.sp = \h0001
    /\ cpu.SP = \hFFFF


\* C18: a read of IF (0xFF0F) or IE (0xFFFF) returns bits 5..7 as 1, whatever
\* value the CPU wrote last.
C18_InterruptRegistersReadHighBitsSet ==
    /\ BitAnd(Read8(Sys, \hFF0F), \hE0) = \hE0
    /\ BitAnd(Read8(Sys, \hFFFF), \hE0) = \hE0

\* the opcodes the instruction set leaves undefined
UndefinedOpcodes ==
    {\hD3, \hDB, \hDD, \hE3, \hE4, \hEB, \hEC, \hED, \hF4, \hFC, \hFD}

\* C19: once a step has fetched an undefined opcode the core is in a fault
\* state: the next step() call is a no-op that leaves PC and all other
\* emulated state unchanged.
C19_StepAfterUndefinedOpcodeIsNoOp ==
    [][(/\ busOp.kind = "step"
        /\ busOp.opcode \in UndefinedOpcodes
        /\ busOp'.kind = "step")
          => (cpu' = cpu /\ mmu' = mmu /\ ppu' = ppu /\ cart' = cart /\ mbc' = mbc)]_vars

\* C20: after GameBoy.reset(), whatever was written before it, the CPU, the PPU
\* and the bus (every RAM region, every I/O register, the joypad state) equal
\* those of a freshly constructed system with the same cartridge.
C20_ResetRestoresPostBootState ==
    busOp.kind = "reset" =>
        /\ cpu = LoadROM(cart.image).cpu
        /\ ppu = LoadROM(cart.image).ppu
        /\ mmu = LoadROM(cart.image).mmu

(***************************************************************************)
(* Properties of reset, save states and ROM loading.                       *)
(***************************************************************************)
\* C21: a reset leaves every byte of the cartridge's RAM unchanged and returns
\* the controller's banking registers to the values its constructor gives
\* them: ROM bank 1, RAM bank 0, RAM disabled, banking mode 0.
C21_ResetKeepsRamAndRestoresBanking ==
    [][busOp'.kind = "reset" =>
          /\ cart'.ram = cart.ram
          /\ mbc'.internalRam = mbc.internalRam
          /\ \A f \in {"ramEnabled", "romBank", "ramBank", "bankingMode",
                       "ramRtcBank", "romBankLow", "romBankHigh"} :
                mbc'[f] = NewMBC(mbc.kind)[f]
          /\ \A f \in {"ramEnabled", "romBank", "ramBank", "bankingMode"} :
                cart'[f] = LoadedCartridge(cart.image)[f]]_vars

\* a reset of an MBC1 cartridge whose RAM holds a written byte
C21_Witness ==
    /\ busOp.kind = "reset"
    /\ mbc.kind = "MBC1"
    /\ cart.ram # EmptyMem
    /\ ~mbc.ramEnabled

(***************************************************************************)
(* Save states.  gb.saveStates is the slot table of the GameBoy object     *)
(* (one slot, empty or holding a snapshot); gb.atSave remembers the whole  *)
(* system at the moment of the save, for the properties only.              *)
(***************************************************************************)
\* The number of saves, loads and writes a run makes
MaxSaveOps == 4

\* an MBC1 cartridge with RAM (image 3) loaded, no state saved
SaveInit ==
    /\ LET S == LoadROM(3)
       IN  /\ cpu = S.cpu
           /\ mmu = S.mmu
           /\ ppu = S.ppu
           /\ cart = S.cart
           /\ mbc = S.mbc
    /\ gb = [pc |-> "idle", cycles |-> 0, calls |-> 0, cpuCycles |-> 0, thrown |-> FALSE,
             vblanks |-> 0, saveStates |-> << >>, atSave |-> << >>]
    /\ busOp = [kind |-> "none", count |-> 0]

\* GameBoy.saveState(0): cpu.getState(), the three PPU fields that loadState
\* reads back, copies of the MMU's arrays, and the Cartridge object's fields
SaveStateCall ==
    /\ busOp.count < MaxSaveOps
    /\ gb' = [gb EXCEPT
                !.saveStates =
                    <<[cpu |-> cpu,
                       ppu |-> [cycles |-> ppu.cycles, currentLine |-> ppu.currentLine,
                                mode |-> ppu.mode],
                       mmu |-> [vram |-> mmu.vram, wram |-> mmu.wram, oam |-> mmu.oam,
                                hram |-> mmu.hram, io |-> mmu.io],
                       cartridge |-> [ram |-> cart.ram, romBank |-> cart.romBank,
                                      ramBank |-> cart.ramBank,
                                      ramEnabled |-> cart.ramEnabled,
                                      bankingMode |-> cart.bankingMode]]>>,
                !.atSave = <<Sys>>]
    /\ busOp' = [kind |-> "save", count |-> busOp.count + 1]
    /\ UNCHANGED <<cpu, mmu, ppu, cart, mbc>>

\* GameBoy.loadState(0) with a snapshot in the slot
LoadStateCall ==
    /\ busOp.count < MaxSaveOps
    /\ gb.saveStates # << >>
    /\ LET state == gb.saveStates[1]
       IN  /\ cpu' = [cpu EXCEPT !.registers = state.cpu.registers,
                                 !.PC = state.cpu.PC, !.SP = state.cpu.SP,
                                 !.IME = state.cpu.IME, !.halted = state.cpu.halted,
                                 !.stopped = state.cpu.stopped,
                                 !.cycles = state.cpu.cycles]
           /\ ppu' = [ppu EXCEPT !.cycles = state.ppu.cycles,
                                 !.currentLine = state.ppu.currentLine,
                                 !.mode = state.ppu.mode]
           /\ mmu' = [mmu EXCEPT !.vram = state.mmu.vram, !.wram = state.mmu.wram,
                                 !.oam = state.mmu.oam, !.hram = state.mmu.hram,
                                 !.io = state.mmu.io]
           /\ cart' = [cart EXCEPT !.ram = state.cartridge.ram,
                                   !.romBank = state.cartridge.romBank,
                                   !.ramBank = state.cartridge.ramBank,
                                   !.ramEnabled = state.cartridge.ramEnabled,
                                   !.bankingMode = state.cartridge.bankingMode]
    /\ busOp' = [kind |-> "load", count |-> busOp.count + 1]
    /\ UNCHANGED <<mbc, gb>>

\* the program run between a save and a load: one CPU.step, or one write8 to
\* the MBC1 registers (RAM enable, ROM bank, RAM bank), external RAM or work RAM
SaveRun ==
    /\ busOp.count < MaxSaveOps
    /\ \/ LET Record(r) == ~r.thrown /\ SysIs(r.s) IN Record(Step(Sys))
       \/ \E address \in {\h0000, \h2000, \h4000, \hA000, \hC000}, value \in {\h0A, \h02} :
             SysIs(Write8(Sys, address, value))
    /\ busOp' = [kind |-> "run", count |-> busOp.count + 1]
    /\ UNCHANGED gb

SpecSave == SaveInit /\ [][SaveStateCall \/ LoadStateCall \/ SaveRun]_vars

\* C22: loadState restores the whole system that saveState captured: after a
\* load, the CPU, bus, PPU, cartridge and controller state equal those at the
\* save, whatever ran in between.
C22_LoadStateRestoresSavedSystem ==
    [][busOp'.kind = "load" => Sys' = gb.atSave[1]]_vars

(***************************************************************************)
(* The Rom object of src/Gameboy (scripts/rom/rom.ts).  In SpecRom the     *)
(* variable cart is the Rom (its data field, empty until an image is       *)
(* accepted) and gb the Gameboy it belongs to: the number of startRom      *)
(* calls, whether the CPU runs, whether an error is displayed.             *)
(***************************************************************************)
\* The number of images handed to the reader's callback in a run
MaxRomLoads == 2

\* data[i] for i in 0x134..0x14D of the image a reader delivers: a header
\* whose byte at `changed` is `value` and whose byte at 0x14D is `checksum`,
\* cut off after `length` bytes (a read past the end gives undefined)
RomHeader(d) ==
    [i \in \h134..\h14D |->
        IF i >= d.length THEN Undefined
        ELSE IF i = \h14D THEN d.checksum
        ELSE IF i = d.changed THEN d.value
        ELSE (i * 7) % 256]

\* the loop of validate: hash = hash - data[i] - 1 for i from 0x134 up to last
RECURSIVE HeaderHash(_, _)
HeaderHash(data, last) ==
    IF last < \h134 THEN 0 ELSE HeaderHash(data, last - 1) - data[last] - 1

\* A faulty validate whose loop stops one byte early, at 0x14B
ValidateShortRange(data) ==
    LET nan == \E i \in \h134..\h14B : data[i] = Undefined
        masked == IF nan THEN 0 ELSE HeaderHash(data, \h14B) % 256
    IN  data[\h14D] # Undefined /\ masked = data[\h14D]

\* validate(data): (hash & 0xff) == data[0x14d].  With an undefined byte in
\* the range the hash is NaN and NaN & 0xff is 0; a number never equals an
\* undefined data[0x14d].
Validate(data) ==
    LET nan == \E i \in \h134..\h14C : data[i] = Undefined
        masked == IF nan THEN 0 ELSE HeaderHash(data, \h14C) % 256
    IN  data[\h14D] # Undefined /\ masked = data[\h14D]

RomInit ==
    /\ cart = [data |-> << >>]
    /\ gb = [starts |-> 0, running |-> FALSE, error |-> FALSE]
    /\ cpu = NewCPU
    /\ mmu = NewMMU
    /\ ppu = NewPPU
    /\ mbc = NewMBC("NoMBC")
    /\ busOp = [kind |-> "none", count |-> 0]

\* the checksum byte that fits a whole image with the byte at `changed` set
\* to `value`
FittingChecksum(changed, value) ==
    LET data == RomHeader([changed |-> changed, value |-> value, checksum |-> 0,
                           length |-> \h8000])
    IN  (256 * 25 + HeaderHash(data, \h14C)) % 256

\* the callback installed by Rom.addReader, called with an image: the first,
\* a middle or the last byte of the summed range changed, or none (0); the
\* checksum byte fitting the image, fitting the unchanged header, one off or
\* zero; a whole image or one cut off before 0x14D
RomCallback ==
    /\ busOp.count < MaxRomLoads
    /\ \E changed \in {0, \h134, \h13F, \h14C}, value \in {\h00, \hFF, \h5A},
          length \in {\h8000, \h14D} :
          \E checksum \in {FittingChecksum(changed, value), FittingChecksum(0, 0),
                           (FittingChecksum(changed, value) + 1) % 256, 0} :
          LET d == [changed |-> changed, value |-> value, checksum |-> checksum,
                    length |-> length]
          IN  /\ IF Validate(RomHeader(d))
                 THEN /\ cart' = [data |-> <<d>>]
                      /\ gb' = [starts |-> gb.starts + 1, running |-> TRUE,
                                error |-> FALSE]
                 ELSE /\ cart' = cart
                      /\ gb' = [gb EXCEPT !.running = FALSE, !.error = TRUE]
              /\ busOp' = [kind |-> "rom", data |-> d, count |-> busOp.count + 1]
    /\ UNCHANGED <<cpu, mmu, ppu, mbc>>

SpecRom == RomInit /\ [][RomCallback]_vars

\* the header checksum as the cartridge header defines it: the sum of the
\* complements 255 - rom[i] of the bytes 0x134..0x14C, modulo 256
RECURSIVE ComplementSum(_, _)
ComplementSum(data, last) ==
    IF last < \h134 THEN 0
    ELSE (ComplementSum(data, last - 1) + 255 - data[last]) % 256

ChecksumMatches(data) ==
    /\ \A i \in \h134..\h14D : data[i] # Undefined
    /\ ComplementSum(data, \h14C) = data[\h14D]

\* C23: an image is accepted exactly when its header checksum matches: then
\* its data is stored and the emulator started; otherwise the Rom's data
\* stays as it was, startRom is not called and an error is reported.
C23_RomAcceptedIffChecksumMatches ==
    [][busOp'.kind = "rom" =>
          IF ChecksumMatches(RomHeader(busOp'.data))
          THEN /\ cart'.data = <<busOp'.data>>
               /\ gb'.starts = gb.starts + 1
          ELSE /\ cart'.data = cart.data
               /\ gb'.starts = gb.starts
               /\ gb'.error]_vars

\* an image whose last summed byte was changed is rejected after an image
\* with a matching checksum was accepted
C23_Witness ==
    /\ busOp.kind = "rom" /\ busOp.count = 2
    /\ busOp.data.changed = \h14C /\ busOp.data.value = \hFF
    /\ gb.error /\ gb.starts = 1
    /\ cart.data # << >> /\ cart.data[1] # busOp.data

\* C24: loadROM succeeds only for an image whose header checksum at 0x014D
\* matches: the image of a loaded cartridge passes the checksum test.
C24_LoadedImageHasMatchingChecksum ==
    ChecksumMatches([i \in \h134..\h14D |-> RomAt(cart.image, i)])

(***************************************************************************)
(* Properties of the timer, stated on the first runFrame call after        *)
(* loadROM, during which gb.cycles is the number of clock cycles elapsed   *)
(* since reset.  No cartridge image writes DIV.                            *)
(***************************************************************************)
\* C25: DIV has been incremented once per 256 elapsed clock cycles:
\* DIV = floor(elapsed / 256) mod 256, whatever the costs of the steps.
C25_DivCountsElapsedCycles ==
    (gb.calls = 0 /\ gb.pc = "loop") => mmu.io[\h04] = (gb.cycles \div 256) % 256

(***************************************************************************)
(* The timer under continued runFrame calls.  The host's game loop calls   *)
(* runFrame on every animation frame, so the loop body keeps being run:    *)
(* SpecTimer is weakly fair on it.                                         *)
(***************************************************************************)
\* CPU.totalCycles up to which a run is followed
MaxTimerCycles == 64

\* The HALT-first cartridge (image 2) at its entry point, with the timer
\* enabled by an earlier program: TAC = 0x05 (a tick every 16 cycles), TIMA two
\* ticks from its overflow, the timer interrupt alone enabled in IE and nothing
\* requested
TimerInit ==
    /\ LET S == LoadROM(2)
       IN  /\ cpu = S.cpu
           /\ mmu = [S.mmu EXCEPT !.io[\h07] = \h05, !.io[\h05] = \hFE,
                                  !.io[\h7F] = \h04, !.io[\h0F] = \h00]
           /\ ppu = S.ppu
           /\ cart = S.cart
           /\ mbc = S.mbc
    /\ gb = IdleFrame
    /\ busOp = [kind |-> "none", count |-> 0]

\* one pass of the body of runFrame's loop: cpu.step(), ppu.step(), updateIO()
TimerRun ==
    /\ cpu.totalCycles < MaxTimerCycles
    /\ \E r \in {Step(Sys)} :
          /\ ~r.thrown
          /\ \E p \in {PPUStep(r.s, r.cycles)} :
                \E t \in {UpdateTimer(p)} : SysIs(t)
    /\ UNCHANGED <<gb, busOp>>

SpecTimer == TimerInit /\ [][TimerRun]_vars /\ WF_vars(TimerRun)

\* C26: with the timer enabled, TIMA eventually overflows and the timer
\* interrupt is requested (IF bit 2), also while the CPU is halted.
C26_EnabledTimerEventuallyRequestsInterrupt ==
    (BitAnd(mmu.io[\h07], \h04) # 0) ~> (BitAnd(mmu.io[\h0F], \h04) # 0)

(***************************************************************************)
(* The joypad: the program selects columns by writing P1, the host presses *)
(* and releases buttons.  Input.buttonStates and MMU.joypadState hold the  *)
(* same record after every change, so mmu.joypadState stands for both.     *)
(***************************************************************************)
\* The number of P1 writes and button changes a run makes
MaxJoyOps == 3

\* write8(0xFF00, value): both columns, one of them, or none selected
JoySelect ==
    /\ busOp.count < MaxJoyOps
    /\ \E value \in {\h00, \h10, \h20, \h30} :
          /\ SysIs(Write8(Sys, \hFF00, value))
          /\ busOp' = [kind |-> "select", value |-> value, count |-> busOp.count + 1]
    /\ UNCHANGED gb

\* Input.setButton(button, pressed) for a button whose state changes, then
\* Input.updateJoypadState and MMU.updateJoypad: the joypad interrupt is
\* requested when the low nibble read from P1 was nonzero and has become zero
SetButton ==
    /\ busOp.count < MaxJoyOps
    /\ \E button \in DOMAIN NoButtons, pressed \in BOOLEAN :
          /\ mmu.joypadState[button] # pressed
          /\ LET oldState == GetJoypadState(mmu)
                 updated == [mmu EXCEPT !.joypadState[button] = pressed]
                 newState == GetJoypadState(updated)
             IN  mmu' = IF BitAnd(oldState, \h0F) # 0 /\ BitAnd(newState, \h0F) = 0
                        THEN [updated EXCEPT !.io[\h0F] = BitOr(updated.io[\h0F], \h10)]
                        ELSE updated
          /\ busOp' = [kind |-> "button", button |-> button, pressed |-> pressed,
                       count |-> busOp.count + 1]
    /\ UNCHANGED <<cpu, ppu, cart, mbc, gb>>

SpecJoypad == LcdInit /\ [][JoySelect \/ SetButton]_vars

\* the P1 select bit of a button's column: 0x10 for directions, 0x20 for actions
ColumnBit(button) ==
    IF button \in {"right", "left", "up", "down"} THEN \h10 ELSE \h20

\* C27: a button going from released to pressed while its column is selected
\* in P1 (its select bit is 0) requests the joypad interrupt (IF bit 4); with
\* the column not selected, or on a release, IF is unchanged.
C27_PressOnSelectedColumnRequestsInterrupt ==
    [][busOp'.kind = "button" =>
          IF busOp'.pressed /\ BitAnd(mmu.io[\h00], ColumnBit(busOp'.button)) = 0
          THEN BitAnd(mmu'.io[\h0F], \h10) # 0
          ELSE mmu'.io[\h0F] = mmu.io[\h0F]]_vars

\* C28: after GameBoy.reset(), every read of an address in 0x0000..0x00FF
\* (the interrupt vectors 0x40..0x60 among them) returns the byte of the
\* cartridge's ROM bank 0, without a write to 0xFF50 first.
C28_ResetMapsCartridgeAtZeroPage ==
    busOp.kind = "reset" =>
        \A address \in 0..255 : Read8(Sys, address) = RomAt(cart.image, address)

(***************************************************************************)
(* The MBC3 real-time clock: register select, register writes, the latch   *)
(* register and reads, on the MBC3 cartridge (image 5).  busOp also keeps   *)
(* what the latch rule is stated over: prevLatch, the byte of the previous  *)
(* write to 0x6000..0x7FFF (-1 before the first), and latched, the RTC      *)
(* registers as they were at the last write of 1 that followed a write of 0 *)
(***************************************************************************)

\* The number of bus accesses a run of the clock makes
MaxRtcOps == 6

RtcInit ==
    /\ cart = LoadedCartridge(5)
    /\ mbc = NewMBC(SetupMBC(Images[5].cartridgeType))
    /\ cpu = NewCPU
    /\ mmu = NewMMU
    /\ ppu = NewPPU
    /\ gb = IdleFrame
    /\ busOp = [kind |-> "none", count |-> 0, prevLatch |-> -1, latched |-> RtcZero]

\* MMU.write8 of an MBC3 register: RAM/RTC enable, register select, latch, or
\* the selected RTC register
RtcWrite ==
    /\ busOp.count < MaxRtcOps
    /\ \E w \in {<<\h0000, \h0A>>, <<\h4000, \h08>>, <<\h4000, \h0C>>,
                 <<\h6000, \h00>>, <<\h6000, \h01>>,
                 <<\hA000, \h25>>, <<\hA000, \hC1>>} :
          \E cw \in {CartridgeWrite(cart, mbc, w[1], w[2])} :
              /\ cart' = cw.cart
              /\ mbc' = cw.mbc
              /\ busOp' = [kind |-> "write", address |-> w[1], value |-> w[2],
                           count |-> busOp.count + 1,
                           prevLatch |-> IF w[1] = \h6000 THEN w[2] ELSE busOp.prevLatch,
                           latched |-> IF w[1] = \h6000 /\ w[2] = 1 /\ busOp.prevLatch = 0
                                       THEN mbc.rtc ELSE busOp.latched]
    /\ UNCHANGED <<cpu, mmu, ppu, gb>>

\* MMU.read8 of external RAM / the selected RTC register
RtcRead ==
    /\ busOp.count < MaxRtcOps
    /\ busOp' = [kind |-> "read", address |-> \hA000,
                 value |-> CartridgeRead(cart, mbc, \hA000),
                 count |-> busOp.count + 1,
                 prevLatch |-> busOp.prevLatch, latched |-> busOp.latched]
    /\ UNCHANGED <<cpu, mmu, ppu, cart, mbc, gb>>

\* Cartridge.reset, as made by GameBoy.reset
RtcReset ==
    /\ busOp.count < MaxRtcOps
    /\ cart' = CartridgeReset(cart)
    /\ mbc' = MBCReset(mbc)
    /\ busOp' = [kind |-> "reset", count |-> busOp.count + 1,
                 prevLatch |-> busOp.prevLatch, latched |-> busOp.latched]
    /\ UNCHANGED <<cpu, mmu, ppu, gb>>

SpecRTC == RtcInit /\ [][RtcWrite \/ RtcRead \/ RtcReset]_vars

\* C29: on MBC3 with RAM/RTC enabled and an RTC register (0x08..0x0C) selected,
\* a read of 0xA000..0xBFFF returns the register as it was at the most recent
\* latch, a latch being exactly a write of 1 to 0x6000..0x7FFF whose previous
\* write to that range was 0; neither later RTC register writes nor any other
\* write sequence to 0x6000..0x7FFF change what is read.
C29_ReadsReturnRegistersOfLastLatch ==
    (busOp.kind = "read" /\ mbc.ramEnabled /\ mbc.ramRtcBank \in \h08..\h0C) =>
        busOp.value = MBC3ReadRTC([ramRtcBank |-> mbc.ramRtcBank,
                                   rtcLatched |-> busOp.latched])

(***************************************************************************)
(* The APU's frame sequencer.  The APU object is kept in gb.apu: enabled,  *)
(* frameSequencerCycles and frameSequencerStep are its fields; lengthClocks,*)
(* envelopeClocks and sweepClocks count the calls stepFrameSequencer makes  *)
(* of stepLength (once per round over the channels), of stepEnvelope and of *)
(* square1.stepSweep.  gb.total is the number of cycles handed to an        *)
(* enabled APU since it was constructed or reset.                           *)
(***************************************************************************)

\* const frameSequencerPeriod in APU.step
frameSequencerPeriod == 8192

\* The number of sequencer periods after which a run stops stepping the APU
MaxApuPeriods == 17

\* APU.constructor; initAudio sets enabled when the audio context was created
NewAPU(enabled) ==
    [enabled |-> enabled, frameSequencerCycles |-> 0, frameSequencerStep |-> 0,
     lengthClocks |-> 0, envelopeClocks |-> 0, sweepClocks |-> 0]

\* A faulty stepFrameSequencer that clocks the sweep on step 2 only
StepFrameSequencerOneSweep(a) ==
    [a EXCEPT !.lengthClocks = IF a.frameSequencerStep % 2 = 0 THEN @ + 1 ELSE @,
              !.envelopeClocks = IF a.frameSequencerStep = 7 THEN @ + 1 ELSE @,
              !.sweepClocks = IF a.frameSequencerStep = 2 THEN @ + 1 ELSE @,
              !.frameSequencerStep = BitAnd(a.frameSequencerStep + 1, 7)]

\* APU.stepFrameSequencer
StepFrameSequencer(a) ==
    [a EXCEPT !.lengthClocks = IF a.frameSequencerStep % 2 = 0 THEN @ + 1 ELSE @,
              !.envelopeClocks = IF a.frameSequencerStep = 7 THEN @ + 1 ELSE @,
              !.sweepClocks = IF a.frameSequencerStep \in {2, 6} THEN @ + 1 ELSE @,
              !.frameSequencerStep = BitAnd(a.frameSequencerStep + 1, 7)]

\* The while loop of APU.step
RECURSIVE DrainSequencer(_)
DrainSequencer(a) ==
    IF a.frameSequencerCycles >= frameSequencerPeriod
    THEN DrainSequencer(StepFrameSequencer(
             [a EXCEPT !.frameSequencerCycles = @ - frameSequencerPeriod]))
    ELSE a

\* APU.step(cycles), as far as the frame sequencer goes
APUStep(a, cycles) ==
    IF ~a.enabled THEN a
    ELSE DrainSequencer([a EXCEPT !.frameSequencerCycles = @ + cycles])

\* APU.reset
APUReset(a) ==
    [a EXCEPT !.frameSequencerCycles = 0, !.frameSequencerStep = 0,
              !.lengthClocks = 0, !.envelopeClocks = 0, !.sweepClocks = 0]

ApuInit ==
    /\ \E enabled \in BOOLEAN : gb = [apu |-> NewAPU(enabled), total |-> 0]
    /\ cpu = NewCPU
    /\ mmu = NewMMU
    /\ ppu = NewPPU
    /\ cart = LoadedCartridge(1)
    /\ mbc = NewMBC("NoMBC")
    /\ busOp = [kind |-> "none"]

\* apu.step(cycles): with an instruction's cycles as runFrame passes them, or
\* with a longer span (half a period, just under one, one, two and a bit)
ApuRun ==
    /\ gb.total < MaxApuPeriods * frameSequencerPeriod
    /\ \E cycles \in {4, 12, 24, 4096, 8180, 8192, 16400} :
          /\ gb' = [apu |-> APUStep(gb.apu, cycles),
                    total |-> IF gb.apu.enabled THEN gb.total + cycles ELSE gb.total]
          /\ busOp' = [kind |-> "step", cycles |-> cycles]
    /\ UNCHANGED <<cpu, mmu, ppu, cart, mbc>>

\* apu.reset(), as made by GameBoy.reset
ApuResetCall ==
    /\ gb.total > 0
    /\ gb' = [apu |-> APUReset(gb.apu), total |-> 0]
    /\ busOp' = [kind |-> "reset"]
    /\ UNCHANGED <<cpu, mmu, ppu, cart, mbc>>

SpecAPU == ApuInit /\ [][ApuRun \/ ApuResetCall]_vars

\* The number of the steps 0..position-1 of a round that belong to steps
ClocksBefore(steps, position) == Cardinality({k \in steps : k < position})

\* C30: with the APU enabled the frame-sequencer step is in 0..7 and has advanced
\* once (mod 8) per 8192 cycles accumulated, the remainder being carried over;
\* lengths were clocked on the steps 0, 2, 4, 6 only, the sweep of channel 1 on
\* the steps 2 and 6 only and the envelopes on step 7 only, so that every 8
\* sequencer steps gave 4 length, 2 sweep and 1 envelope clock.
C30_FrameSequencerCadence ==
    gb.apu.enabled =>
        LET done == gb.total \div frameSequencerPeriod
        IN  /\ gb.apu.frameSequencerStep \in 0..7
            /\ gb.apu.frameSequencerStep = done % 8
            /\ gb.apu.frameSequencerCycles = gb.total % frameSequencerPeriod
            /\ gb.apu.lengthClocks = 4 * (done \div 8) + ClocksBefore({0, 2, 4, 6}, done % 8)
            /\ gb.apu.sweepClocks = 2 * (done \div 8) + ClocksBefore({2, 6}, done % 8)
            /\ gb.apu.envelopeClocks = (done \div 8) + ClocksBefore({7}, done % 8)

\* A step that ran the sequencer twice and completed the first round of 8:
\* 4 length, 2 sweep and 1 envelope clock have been made
C30_Witness ==
    /\ gb.apu.enabled
    /\ busOp.kind = "step" /\ busOp.cycles = 16400
    /\ gb.total \div frameSequencerPeriod = 8
    /\ gb.apu.frameSequencerStep = 0
    /\ gb.apu.lengthClocks = 4 /\ gb.apu.sweepClocks = 2 /\ gb.apu.envelopeClocks = 1

(***************************************************************************)
(* Pulse channel 1 (SquareWaveChannel(1)), kept in gb.square1: its          *)
(* registers as APU.writeRegister sets them, its trigger and its frequency  *)
(* sweep, next to the CPU's bus writes of the sound registers               *)
(***************************************************************************)

\* The number of register writes and sweep clocks a run makes
MaxSquareOps == 5

\* SquareWaveChannel.constructor(1)
NewSquareWaveChannel ==
    [enabled |-> FALSE, sweepPeriod |-> 0, sweepDirection |-> 0, sweepShift |-> 0,
     lengthCounter |-> 0, dutyCycle |-> 0, envelopePeriod |-> 0,
     envelopeDirection |-> 0, envelopeVolume |-> 0, frequency |-> 0,
     trigger |-> FALSE, lengthEnable |-> FALSE, sweepCounter |-> 0,
     envelopeCounter |-> 0, currentVolume |-> 0, sweepEnabled |-> FALSE]

\* SquareWaveChannel.restart, channelNumber 1
Restart(ch) ==
    [ch EXCEPT !.enabled = TRUE,
               !.lengthCounter = IF @ = 0 THEN 64 ELSE @,
               !.envelopeCounter = ch.envelopePeriod,
               !.currentVolume = ch.envelopeVolume,
               !.sweepCounter = ch.sweepPeriod,
               !.sweepEnabled = ch.sweepPeriod # 0 \/ ch.sweepShift # 0]

\* APU.writeRegister(address, value) for 0x10..0x14, with the channel's
\* writeSweep, writeLengthDuty, writeEnvelope, writeFrequencyLow and
\* writeFrequencyHigh
WriteRegister(ch, address, value) ==
    CASE address = \h10 ->
            [ch EXCEPT !.sweepPeriod = BitAnd(value \div 16, 7),
                       !.sweepDirection = BitAnd(value \div 8, 1),
                       !.sweepShift = BitAnd(value, 7)]
      [] address = \h11 ->
            [ch EXCEPT !.dutyCycle = BitAnd(value \div 64, 3),
                       !.lengthCounter = 64 - BitAnd(value, \h3F)]
      [] address = \h12 ->
            [ch EXCEPT !.envelopeVolume = BitAnd(value \div 16, \h0F),
                       !.envelopeDirection = BitAnd(value \div 8, 1),
                       !.envelopePeriod = BitAnd(value, 7),
                       !.currentVolume = BitAnd(value \div 16, \h0F)]
      [] address = \h13 ->
            [ch EXCEPT !.frequency = BitOr(BitAnd(@, \h700), value)]
      [] address = \h14 ->
            LET set == [ch EXCEPT !.frequency =
                                      BitOr(BitAnd(@, \hFF), BitAnd(value, 7) * 256),
                                  !.lengthEnable = BitAnd(value, \h40) # 0]
            IN  IF BitAnd(value, \h80) # 0
                THEN Restart([set EXCEPT !.trigger = TRUE])
                ELSE set
      [] OTHER -> ch

\* SquareWaveChannel.stepSweep, channelNumber 1
StepSweep(ch) ==
    IF ~ch.sweepEnabled THEN ch
    ELSE IF ch.sweepCounter - 1 > 0 THEN [ch EXCEPT !.sweepCounter = @ - 1]
    ELSE IF ch.sweepPeriod = 0 THEN [ch EXCEPT !.sweepCounter = ch.sweepPeriod]
    ELSE LET delta == ch.frequency \div Pow2(ch.sweepShift)
             swept == IF ch.sweepDirection = 0 THEN ch.frequency + delta
                      ELSE ch.frequency - delta
         IN  [ch EXCEPT !.sweepCounter = ch.sweepPeriod,
                        !.frequency = swept,
                        !.enabled = IF swept > 2047 THEN FALSE ELSE @]

SquareInit ==
    /\ LET S == LoadROM(1)
       IN  /\ cpu = S.cpu
           /\ mmu = S.mmu
           /\ ppu = S.ppu
           /\ cart = S.cart
           /\ mbc = S.mbc
    /\ gb = [square1 |-> NewSquareWaveChannel]
    /\ busOp = [kind |-> "none", count |-> 0]

\* apu.writeRegister(address, value): sweep period 1 with shift 1 up, shift 0
\* up, shift 1 down; length; envelope; frequency low; frequency high with and
\* without the trigger bit
SquareWrite ==
    /\ busOp.count < MaxSquareOps
    /\ \E w \in {<<\h10, \h11>>, <<\h10, \h10>>, <<\h10, \h19>>, <<\h11, \h3F>>,
                 <<\h12, \hA3>>, <<\h13, \hFF>>, <<\h13, \h00>>,
                 <<\h14, \h87>>, <<\h14, \h84>>, <<\h14, \h04>>} :
          /\ gb' = [square1 |-> WriteRegister(gb.square1, w[1], w[2])]
          /\ busOp' = [kind |-> "register", address |-> w[1], value |-> w[2],
                       before |-> gb.square1, count |-> busOp.count + 1]
    /\ UNCHANGED <<cpu, mmu, ppu, cart, mbc>>

\* A CPU write of a sound register: MMU.write8 stores the byte in io[]; neither
\* MMU.writeIO nor GameBoy.updateAudioRegisters hands it to the APU
SquareBusWrite ==
    /\ busOp.count < MaxSquareOps
    /\ \E w \in {<<\hFF12, \hA3>>, <<\hFF14, \h87>>, <<\hFF14, \h04>>} :
          /\ SysIs(Write8(Sys, w[1], w[2]))
          /\ busOp' = [kind |-> "bus", address |-> w[1], value |-> w[2],
                       before |-> gb.square1, count |-> busOp.count + 1]
    /\ UNCHANGED gb

\* square1.stepSweep(), as stepFrameSequencer calls it on steps 2 and 6
SquareSweep ==
    /\ busOp.count < MaxSquareOps
    /\ gb' = [square1 |-> StepSweep(gb.square1)]
    /\ busOp' = [kind |-> "sweep", address |-> Undefined, value |-> Undefined,
                 before |-> gb.square1, count |-> busOp.count + 1]
    /\ UNCHANGED <<cpu, mmu, ppu, cart, mbc>>

SpecSquare == SquareInit /\ [][SquareWrite \/ SquareBusWrite \/ SquareSweep]_vars

\* C31: a CPU bus write with bit 7 set to the frequency-high/trigger register
\* of a channel (0xFF14 for pulse 1) triggers the channel: it is enabled, a
\* zero length counter is reloaded to the maximum, and the envelope counter,
\* the current volume and the sweep counter are reloaded.
C31_BusWriteOfTriggerBitRestartsChannel ==
    (busOp.kind = "bus" /\ busOp.address = \hFF14 /\ BitAnd(busOp.value, \h80) # 0) =>
        /\ gb.square1.enabled
        /\ busOp.before.lengthCounter = 0 => gb.square1.lengthCounter = 64
        /\ gb.square1.envelopeCounter = gb.square1.envelopePeriod
        /\ gb.square1.currentVolume = gb.square1.envelopeVolume
        /\ gb.square1.sweepCounter = gb.square1.sweepPeriod

\* C32: a sweep tick of pulse channel 1 computes f + (f >> shift) or
\* f - (f >> shift); a result above 2047 disables the channel, and the
\* channel's frequency is within 0..2047 in every reachable state.
C32_SweepKeepsFrequencyInRange ==
    /\ gb.square1.frequency \in 0..2047
    /\ (busOp.kind = "sweep" /\ busOp.before.sweepEnabled
           /\ busOp.before.sweepCounter <= 1 /\ busOp.before.sweepPeriod # 0) =>
          LET f == busOp.before.frequency
              delta == f \div Pow2(busOp.before.sweepShift)
              result == IF busOp.before.sweepDirection = 0 THEN f + delta ELSE f - delta
          IN  result > 2047 => ~gb.square1.enabled

(***************************************************************************)
(* The decimal adjust of the TypeScript core (ops.DAA, opcode 0x27), on     *)
(* the registers A and F kept in gb.r                                      *)
(***************************************************************************)

\* The number of DAA instructions a run executes
MaxDaaCalls == 2

\* ops.DAA: the registers after the instruction.  A may be negative or above
\* 0xFF before the final mask; the test of bit 8 and the mask act on its
\* two's complement as JavaScript's & does
DAA(r) ==
    LET sub == BitAnd(r.F, \h40) # 0
        h == BitAnd(r.F, \h20) # 0
        c == BitAnd(r.F, \h10) # 0
        a1 == IF sub
              THEN IF h THEN (r.A - 6) % 256 ELSE r.A
              ELSE IF BitAnd(r.A, \h0F) > 9 \/ h THEN r.A + 6 ELSE r.A
        a2 == IF sub
              THEN IF c THEN a1 - \h60 ELSE a1
              ELSE IF a1 > \h9F \/ c THEN a1 + \h60 ELSE a1
        carry == c \/ (a2 % 512) >= 256
        a == a2 % 256
    IN  [A |-> a,
         F |-> BitAnd(r.F, \h40) + (IF a = 0 THEN \h80 ELSE 0)
                                 + (IF carry THEN \h10 ELSE 0)]

DaaInit ==
    /\ LET S == LoadROM(1)
       IN  /\ cpu = S.cpu
           /\ mmu = S.mmu
           /\ ppu = S.ppu
           /\ cart = S.cart
           /\ mbc = S.mbc
    /\ \E a \in 0..255, flags \in 0..15 : gb = [r |-> [A |-> a, F |-> flags * 16]]
    /\ busOp = [kind |-> "none", count |-> 0]

\* opcodeMap[0x27]
DaaCall ==
    /\ busOp.count < MaxDaaCalls
    /\ gb' = [r |-> DAA(gb.r)]
    /\ busOp' = [kind |-> "daa", before |-> gb.r, count |-> busOp.count + 1]
    /\ UNCHANGED <<cpu, mmu, ppu, cart, mbc>>

SpecDAA == DaaInit /\ [][DaaCall]_vars

\* C33: DAA from A = 0x05, F = 0x60 (N and H set) gives A = 0xFF and F = 0x50
\* (N and C set); in general Z follows the 8-bit result, H is cleared, N is
\* unchanged and A stays within 0..255.
C33_DecimalAdjustAfterSubtraction ==
    busOp.kind = "daa" =>
        /\ gb.r.A \in 0..255
        /\ (BitAnd(gb.r.F, \h80) # 0) <=> (gb.r.A = 0)
        /\ BitAnd(gb.r.F, \h20) = 0
        /\ BitAnd(gb.r.F, \h40) = BitAnd(busOp.before.F, \h40)
        /\ BitAnd(gb.r.F, \h0F) = 0
        /\ busOp.before = [A |-> \h05, F |-> \h60] => gb.r = [A |-> \hFF, F |-> \h50]

MaxRenders == 1

\* The body of renderSprites' loop over px for one pixel of a sprite
RenderSpritePixel(g) ==
    LET priority == BitAnd(g.attributes, \h80) = 0
    IN  IF g.colorIndex = 0 THEN g.pixel
        ELSE IF ~priority /\ g.backgroundBuffer # 0 THEN g.pixel
        ELSE [written |-> TRUE, layer |-> "sprite", colorIndex |-> g.colorIndex]

\* The body of composeScanline's loop over x for one column
ComposePixel(g, pixel) ==
    LET colorIndex == IF g.windowBuffer # 0 \/ g.windowCovers
                      THEN g.windowBuffer ELSE g.backgroundBuffer
    IN  IF pixel.written THEN pixel
        ELSE [written |-> TRUE, layer |-> "background", colorIndex |-> colorIndex]

PixelInit ==
    /\ LET S == LoadROM(1)
       IN  /\ cpu = S.cpu
           /\ mmu = S.mmu
           /\ ppu = S.ppu
           /\ cart = S.cart
           /\ mbc = S.mbc
    /\ \E backgroundBuffer \in 0..3, windowCovers \in BOOLEAN, colorIndex \in 0..3,
          attributes \in {\h00, \h80, \h10, \h90} :
          \E windowBuffer \in (IF windowCovers THEN 0..3 ELSE {0}) :
              gb = [backgroundBuffer |-> backgroundBuffer, windowBuffer |-> windowBuffer,
                    windowCovers |-> windowCovers, colorIndex |-> colorIndex,
                    attributes |-> attributes,
                    pixel |-> [written |-> FALSE, layer |-> "none", colorIndex |-> 0]]
    /\ busOp = [kind |-> "none", count |-> 0]

\* renderScanline at the column: renderSprites, then composeScanline
RenderColumn ==
    /\ busOp.count < MaxRenders
    /\ gb' = [gb EXCEPT !.pixel = ComposePixel(gb, RenderSpritePixel(gb))]
    /\ busOp' = [kind |-> "render", count |-> busOp.count + 1]
    /\ UNCHANGED <<cpu, mmu, ppu, cart, mbc>>

SpecPixel == PixelInit /\ [][RenderColumn]_vars

\* C35: a sprite pixel of colour index 0 is transparent; a non-transparent
\* sprite pixel with attribute bit 0x80 set is suppressed whenever the visible
\* background-or-window colour index under it (the window's where the window
\* covers the column) is non-zero; otherwise the sprite pixel replaces the
\* background/window pixel.
C35_SpritePriorityOverBackgroundAndWindow ==
    busOp.kind = "render" =>
        LET visible == IF gb.windowCovers THEN gb.windowBuffer ELSE gb.backgroundBuffer
            suppressed == gb.colorIndex = 0
                          \/ (BitAnd(gb.attributes, \h80) # 0 /\ visible # 0)
        IN  IF suppressed
            THEN gb.pixel.layer = "background" /\ gb.pixel.colorIndex = visible
            ELSE gb.pixel.layer = "sprite"

(***************************************************************************)
(* Battery-backed save RAM: bus writes of the RAM enable register and of    *)
(* cartridge RAM, Cartridge.saveToBattery and Cartridge.loadSaveData, on    *)
(* the cartridges that declare a battery.  gb.storage is the entry of local *)
(* storage under the cartridge's save key; gb.written maps every RAM        *)
(* address written while RAM was enabled to the byte last stored there      *)
(* (its low nibble on MBC2); gb.dirty tells a write came after the save.    *)
(***************************************************************************)

\* The number of bus writes, saves and loads a run makes
MaxBatteryOps == 4

\* Cartridge.getSaveData: a copy of this.ram, or null
GetSaveData(c) ==
    IF c.hasBattery /\ c.hasRam THEN [present |-> TRUE, data |-> c.ram]
    ELSE [present |-> FALSE, data |-> EmptyMem]

\* Cartridge.loadSaveData: this.ram.set(data) when there is an entry for the
\* title and this.ram has its length
LoadSaveData(c, storage) ==
    IF c.hasBattery /\ storage.present /\ c.hasRam THEN [c EXCEPT !.ram = storage.data]
    ELSE c

BatteryInit ==
    /\ \E img \in {2, 4, 5, 6} :
          /\ cart = LoadedCartridge(img)
          /\ mbc = NewMBC(SetupMBC(Images[img].cartridgeType))
    /\ cpu = NewCPU
    /\ mmu = NewMMU
    /\ ppu = NewPPU
    /\ gb = [storage |-> [present |-> FALSE, data |-> EmptyMem],
             written |-> EmptyMem, dirty |-> FALSE]
    /\ busOp = [kind |-> "none", count |-> 0]

\* MMU.write8 of the RAM enable register or of cartridge RAM
BatteryWrite ==
    /\ busOp.count < MaxBatteryOps
    /\ \E w \in {<<\h0000, \h0A>>, <<\h0000, \h00>>, <<\hA000, \h5A>>,
                 <<\hA000, \h03>>, <<\hA1FF, \h07>>} :
          \E cw \in {CartridgeWrite(cart, mbc, w[1], w[2])} :
              /\ cart' = cw.cart
              /\ mbc' = cw.mbc
              /\ gb' = IF InRam(w[1]) /\ mbc.ramEnabled
                       THEN [gb EXCEPT !.written =
                                [a \in (DOMAIN gb.written) \cup {w[1]} |->
                                    IF a # w[1] THEN gb.written[a]
                                    ELSE IF mbc.kind = "MBC2" THEN BitAnd(w[2], \h0F)
                                    ELSE w[2]],
                                       !.dirty = TRUE]
                       ELSE gb
              /\ busOp' = [kind |-> "write", count |-> busOp.count + 1]
    /\ UNCHANGED <<cpu, mmu, ppu>>

\* Cartridge.saveToBattery (the title is not empty)
SaveToBattery ==
    /\ busOp.count < MaxBatteryOps
    /\ \E data \in {GetSaveData(cart)} :
          gb' = [gb EXCEPT !.storage = IF data.present THEN data ELSE @,
                           !.dirty = FALSE]
    /\ busOp' = [kind |-> "save", count |-> busOp.count + 1]
    /\ UNCHANGED <<cpu, mmu, ppu, cart, mbc>>

\* Cartridge.loadSaveData
LoadSaveDataCall ==
    /\ busOp.count < MaxBatteryOps
    /\ cart' = LoadSaveData(cart, gb.storage)
    /\ busOp' = [kind |-> "load", count |-> busOp.count + 1, cart |-> cart,
                 afterSave |-> busOp.kind = "save"]
    /\ UNCHANGED <<cpu, mmu, ppu, mbc, gb>>

SpecBattery == BatteryInit /\ [][BatteryWrite \/ SaveToBattery \/ LoadSaveDataCall]_vars

\* C36: on every cartridge that declares a battery (MBC2+BATTERY with its
\* internal RAM included) the battery snapshot holds every byte written to
\* cartridge RAM while RAM was enabled, and loading the snapshot back leaves
\* every cartridge-RAM read as it was.
C36_BatterySnapshotHoldsWrittenRam ==
    /\ busOp.kind = "save" =>
          \A a \in DOMAIN gb.written :
              /\ gb.storage.present
              /\ SparseGet(gb.storage.data, a - \hA000, \hFF) = gb.written[a]
    /\ (busOp.kind = "load" /\ busOp.afterSave) =>
          \A a \in {\hA000, \hA1FF} :
              CartridgeRead(cart, mbc, a) = CartridgeRead(busOp.cart, mbc, a)

(***************************************************************************)
(* The host loop of GameBoy: start, stop, pause, reset, and the browser     *)
(* firing animation-frame and timeout callbacks.  gb holds running, paused  *)
(* and animationId (0 for null), the ids of the animation-frame callbacks   *)
(* requested and neither fired nor cancelled (pending), the number of       *)
(* restart timeouts not yet fired (timeouts), the next id the browser hands *)
(* out, and frameCount.  debugMode is off, as the constructor leaves it, so *)
(* runFrame touches none of these fields; the emulated machine it advances  *)
(* is the one of Spec and is left out here.                                *)
(***************************************************************************)

\* The number of calls and callbacks in a run
MaxLoopOps == 5

\* GameBoy.gameLoop: returns at once unless running and not paused; otherwise
\* runs a frame and requests the next animation frame
GameLoop(g) ==
    IF ~g.running \/ g.paused THEN g
    ELSE [g EXCEPT !.frameCount = @ + 1,
                   !.animationId = g.nextId,
                   !.pending = @ \cup {g.nextId},
                   !.nextId = @ + 1]

\* GameBoy.stop: cancelAnimationFrame(this.animationId) when it is set
Stop(g) ==
    [g EXCEPT !.running = FALSE, !.paused = FALSE,
              !.pending = IF g.animationId # 0 THEN @ \ {g.animationId} ELSE @,
              !.animationId = 0]

LoopInit ==
    /\ LET S == LoadROM(1)
       IN  /\ cpu = S.cpu
           /\ mmu = S.mmu
           /\ ppu = S.ppu
           /\ cart = S.cart
           /\ mbc = S.mbc
    /\ gb = [running |-> FALSE, paused |-> FALSE, animationId |-> 0, pending |-> {},
             timeouts |-> 0, nextId |-> 1, frameCount |-> 0, ops |-> 0]
    /\ busOp = [kind |-> "none"]

\* GameBoy.start()
StartCall ==
    /\ gb.ops < MaxLoopOps
    /\ gb' = [(IF gb.running THEN gb
               ELSE GameLoop([gb EXCEPT !.running = TRUE, !.paused = FALSE]))
              EXCEPT !.ops = gb.ops + 1]
    /\ busOp' = [kind |-> "start"]
    /\ UNCHANGED <<cpu, mmu, ppu, cart, mbc>>

\* GameBoy.stop()
StopCall ==
    /\ gb.ops < MaxLoopOps
    /\ gb' = [Stop(gb) EXCEPT !.ops = gb.ops + 1]
    /\ busOp' = [kind |-> "stop"]
    /\ UNCHANGED <<cpu, mmu, ppu, cart, mbc>>

\* GameBoy.pause(): toggles paused and calls gameLoop on resuming
PauseCall ==
    /\ gb.ops < MaxLoopOps
    /\ gb' = [(IF gb.paused /\ gb.running
               THEN GameLoop([gb EXCEPT !.paused = FALSE])
               ELSE [gb EXCEPT !.paused = ~gb.paused])
              EXCEPT !.ops = gb.ops + 1]
    /\ busOp' = [kind |-> "pause"]
    /\ UNCHANGED <<cpu, mmu, ppu, cart, mbc>>

\* GameBoy.reset(): stop, reset of the components, and a restart 100 ms later
\* when the emulator was running
LoopReset ==
    /\ gb.ops < MaxLoopOps
    /\ gb' = [Stop(gb) EXCEPT !.frameCount = 0,
                              !.timeouts = IF gb.running THEN @ + 1 ELSE @,
                              !.ops = gb.ops + 1]
    /\ SysIs(Reset(Sys))
    /\ busOp' = [kind |-> "reset"]

\* The browser fires a requested animation frame: () => this.gameLoop()
AnimationFrame ==
    /\ gb.ops < MaxLoopOps
    /\ \E id \in gb.pending :
          gb' = [GameLoop([gb EXCEPT !.pending = @ \ {id}]) EXCEPT !.ops = gb.ops + 1]
    /\ busOp' = [kind |-> "frame"]
    /\ UNCHANGED <<cpu, mmu, ppu, cart, mbc>>

\* The browser fires reset's timeout: () => this.start()
TimeoutFires ==
    /\ gb.ops < MaxLoopOps
    /\ gb.timeouts > 0
    /\ gb' = [(IF gb.running THEN gb
               ELSE GameLoop([gb EXCEPT !.running = TRUE, !.paused = FALSE]))
              EXCEPT !.timeouts = gb.timeouts - 1, !.ops = gb.ops + 1]
    /\ busOp' = [kind |-> "timeout"]
    /\ UNCHANGED <<cpu, mmu, ppu, cart, mbc>>

SpecLoop ==
    LoopInit /\ [][StartCall \/ StopCall \/ PauseCall \/ LoopReset
                     \/ AnimationFrame \/ TimeoutFires]_vars

\* C37: at most one game-loop callback is pending at any time, under every
\* interleaving of start, stop, pause, reset and the browser's callbacks, and
\* stop() leaves none pending.
C37_AtMostOneLoopCallbackPending ==
    /\ Cardinality(gb.pending) <= 1
    /\ busOp.kind = "stop" => gb.pending = {}

(***************************************************************************)
(* Breakpoints: toggleDebugMode, addBreakpoint, start, the passes of        *)
(* runFrame's loop with its breakpoint test, and pause() resuming a paused  *)
(* emulator.  gb.pc tells whether runFrame is in its loop; gb.resumes       *)
(* counts the resuming pause() calls and gb.sinceResume the CPU steps made  *)
(* since the last of them.  A run stays within its first frame, so the      *)
(* animation-frame callback only ever finds the emulator paused and returns.*)
(***************************************************************************)

\* The number of CPU steps a debugged run makes
MaxDebugSteps == 40

DebugInit ==
    /\ \E img \in {1, 3} : LET S == LoadROM(img)
                           IN  /\ cpu = S.cpu
                               /\ mmu = S.mmu
                               /\ ppu = S.ppu
                               /\ cart = S.cart
                               /\ mbc = S.mbc
    /\ gb = [running |-> FALSE, paused |-> FALSE, debugMode |-> FALSE,
             breakpoints |-> {}, pc |-> "idle", cycles |-> 0, steps |-> 0,
             resumes |-> 0, sinceResume |-> 0]
    /\ busOp = [kind |-> "none"]

\* GameBoy.toggleDebugMode()
ToggleDebugMode ==
    /\ gb.pc = "idle" /\ ~gb.running
    /\ gb' = [gb EXCEPT !.debugMode = ~@]
    /\ busOp' = [kind |-> "debug"]
    /\ UNCHANGED <<cpu, mmu, ppu, cart, mbc>>

\* GameBoy.addBreakpoint(address)
AddBreakpoint ==
    /\ gb.pc = "idle" /\ ~gb.running
    /\ \E address \in {\h0100, \h0101, \h0102, \h0150} :
          /\ address \notin gb.breakpoints
          /\ gb.breakpoints = {}
          /\ gb' = [gb EXCEPT !.breakpoints = @ \cup {address}]
    /\ busOp' = [kind |-> "breakpoint"]
    /\ UNCHANGED <<cpu, mmu, ppu, cart, mbc>>

\* GameBoy.start(): gameLoop enters runFrame (let cycles = 0)
DebugStart ==
    /\ gb.pc = "idle" /\ ~gb.running
    /\ gb' = [gb EXCEPT !.running = TRUE, !.paused = FALSE, !.pc = "loop", !.cycles = 0]
    /\ busOp' = [kind |-> "start"]
    /\ UNCHANGED <<cpu, mmu, ppu, cart, mbc>>

\* One pass of runFrame's loop: the breakpoint test, which calls pause() and
\* breaks, or a CPU step with the PPU and timer updates
DebugIter ==
    /\ gb.pc = "loop"
    /\ gb.steps < MaxDebugSteps
    /\ IF gb.debugMode /\ cpu.PC \in gb.breakpoints
       THEN /\ gb' = [gb EXCEPT !.paused = ~@, !.pc = "idle"]
            /\ busOp' = [kind |-> "break", address |-> cpu.PC]
            /\ UNCHANGED <<cpu, mmu, ppu, cart, mbc>>
       ELSE \E r \in {Step(Sys)} :
                /\ ~r.thrown
                /\ \E T \in {LoopBody(r.s, r.cycles)} :
                      /\ SysIs(T)
                      /\ gb' = [gb EXCEPT
                                   !.cycles = @ + r.cycles,
                                   !.steps = @ + 1,
                                   !.sinceResume = @ + 1,
                                   !.pc = IF T.ppu.frameComplete
                                             \/ ~(gb.cycles + r.cycles < cyclesPerFrame)
                                          THEN "idle" ELSE "loop"]
                      /\ busOp' = [kind |-> "step", address |-> cpu.PC]

\* GameBoy.pause() on a paused, running emulator: clears paused and calls
\* gameLoop, which enters runFrame
DebugResume ==
    /\ gb.pc = "idle" /\ gb.running /\ gb.paused
    /\ gb.resumes < 2
    /\ gb' = [gb EXCEPT !.paused = FALSE, !.pc = "loop", !.cycles = 0,
                        !.resumes = @ + 1, !.sinceResume = 0]
    /\ busOp' = [kind |-> "resume"]
    /\ UNCHANGED <<cpu, mmu, ppu, cart, mbc>>

SpecDebug ==
    DebugInit /\ [][ToggleDebugMode \/ AddBreakpoint \/ DebugStart
                      \/ DebugIter \/ DebugResume]_vars

\* C38: after runFrame stopped at a breakpoint, resuming with pause() lets
\* execution go on: the emulator does not pause at the breakpoint again
\* before the instruction there has been executed.
C38_ResumeRunsPastBreakpoint ==
    ~(busOp.kind = "break" /\ gb.resumes > 0 /\ gb.sinceResume = 0)

\* C39: in every state reached from PPU.reset() by PPU.step(c) calls with
\* c in 4..24 and the LCD enabled, currentLine is in 0..153, mode is 1 exactly
\* when currentLine >= 144, LY equals currentLine, frameComplete is true
\* exactly while mode is 1, and 0 <= cycles < the duration of the mode (80,
\* 172, 204, 456 for modes 2, 3, 0, 1).
C39_PpuStateInvariant ==
    IsLCDEnabled(Sys) =>
        /\ ppu.currentLine \in 0..153
        /\ ppu.mode \in 0..3
        /\ (ppu.mode = 1) <=> (ppu.currentLine >= 144)
        /\ mmu.io[\h44] = ppu.currentLine
        /\ ppu.frameComplete <=> (ppu.mode = 1)
        /\ ppu.cycles >= 0
        /\ ppu.cycles < (CASE ppu.mode = 2 -> OAM_SCAN
                           [] ppu.mode = 3 -> DRAWING
                           [] ppu.mode = 0 -> H_BLANK
                           [] OTHER -> V_BLANK)

\* The PPU is back in OAM scan on line 0 of the second frame, with cycles
\* carried over the mode change, after a V-blank that reached line 153
C39_Witness ==
    /\ IsLCDEnabled(Sys)
    /\ gb.cycles > 70224
    /\ ppu.currentLine = 0 /\ ppu.mode = 2 /\ ppu.cycles > 0 /\ ~ppu.frameComplete

(***************************************************************************)
(* A failed ROM load: GameBoy.loadROM with a buffer shorter than 32 KiB, on *)
(* a machine whose cartridge is loaded and has seen bus accesses            *)
(***************************************************************************)

\* GameBoy.loadROM(buffer of 16 KiB): stop(), then Cartridge.loadROM, which
\* assigns this.rom and this.romSize and then throws; loadROM returns false
LoadShortRom ==
    /\ busOp.count < MaxOps
    /\ cart' = [cart EXCEPT !.image = 0]
    /\ busOp' = [kind |-> "load", cart |-> cart, count |-> busOp.count + 1]
    /\ UNCHANGED <<cpu, mmu, ppu, mbc, gb>>

SpecLoad == CartInit /\ [][BusWrite \/ BusRead \/ LoadShortRom]_vars

\* C40: when a ROM load fails (the image is under 32 KiB) the cartridge is
\* unchanged: ROM bytes, external RAM, header fields and controller stay in
\* place, and every bus read of 0x0000..0x7FFF and 0xA000..0xBFFF returns
\* what it returned before the failed call.
C40_FailedLoadLeavesCartridgeUnchanged ==
    busOp.kind = "load" =>
        /\ cart = busOp.cart
        /\ \A address \in {\h0000, \h0100, \h3FFF, \h4000, \h7FFF, \hA000, \hBFFF} :
              CartridgeRead(cart, mbc, address) = CartridgeRead(busOp.cart, mbc, address)
=============================================================================
